---- MODULE Spec2Model ----
(***************************************************************************)
(* A model of odkrun, the ODK Runner launcher (gouttegd/odkrunner), in its *)
(* GNU/Linux build (ODK_RUNNER_LINUX, HAVE_SYS_WAIT_H).                    *)
(*                                                                         *)
(* C strings are TLA+ strings; a NULL pointer is the marker NULL, which no *)
(* input set contains.  cfg.flags and the fgs/flags parameters keep their  *)
(* C bit values.  Memory sizes are counted in MiB (2^20 bytes): the host   *)
(* reports whole MiB, up to 64 GiB.                                        *)
(***************************************************************************)
EXTENDS Integers, Sequences, FiniteSets, TLC

VARIABLES
    pc,         \* position in main(), or "api" in the unit specification SpecApi
    cfg,        \* odk_run_config_t
    cli,        \* what the command line asked for (history of the getopt loop)
    host,       \* what the host (environment, files, child processes) answered so far
    backend,    \* odk_backend_t: kind, prepare present, info.total_memory
    ret,        \* main()'s ret
    status,     \* how the launcher ended (return, exit, abort; "no": not yet) and its code
    calls,      \* how often prepare, run and close were called, with what, and the results
    last        \* the latest step: its name and, where kept, arguments, cfg before, result

vars == <<pc, cfg, cli, host, backend, ret, status, calls, last>>

NULL == "(null)"

(***************************************************************************)
(* Bounds of the model.                                                    *)
(***************************************************************************)
MaxCalls == 3       \* calls of the RunConfig API in SpecApi

(***************************************************************************)
(* runner.h                                                                *)
(***************************************************************************)
ODK_FLAG_TIMEDEBUG  == 1
ODK_FLAG_RUNASROOT  == 2
ODK_FLAG_SEEDMODE   == 4
ODK_FLAG_JAVAMEMSET == 8192
ODK_FLAG_INODKREPO  == 16384
ODK_NO_OVERWRITE    == 1

\* (flags & bit) != 0, for a bit that is a power of two
HasFlag(flags, bit) == (flags \div bit) % 2 = 1

\* flags | bit
SetFlag(flags, bit) == IF HasFlag(flags, bit) THEN flags ELSE flags + bit

DEFAULT_IMAGE_NAME == "obolibrary/odkfull"
DEFAULT_IMAGE_TAG  == "latest"
DEFAULT_OAK_CACHE  == NULL

(***************************************************************************)
(* runner.c                                                                *)
(***************************************************************************)

\* image_name and image_tag are pointers: name_dflt / tag_dflt tell whether the
\* pointer still is DEFAULT_IMAGE_NAME / DEFAULT_IMAGE_TAG (the code compares
\* pointers, not contents).
odk_init_config ==
    [ image_name          |-> DEFAULT_IMAGE_NAME,
      name_dflt           |-> TRUE,
      image_tag           |-> DEFAULT_IMAGE_TAG,
      tag_dflt            |-> TRUE,
      work_directory      |-> "/work",
      bindings            |-> << >>,
      env_vars            |-> << >>,
      java_opts           |-> << >>,
      oak_cache_directory |-> DEFAULT_OAK_CACHE,
      flags               |-> 0 ]

odk_set_image_name(c, img, fgs) ==
    IF c.name_dflt \/ ~HasFlag(fgs, ODK_NO_OVERWRITE)
    THEN [c EXCEPT !.image_name = img, !.name_dflt = FALSE]
    ELSE c

odk_set_image_tag(c, tag, fgs) ==
    IF c.tag_dflt \/ ~HasFlag(fgs, ODK_NO_OVERWRITE)
    THEN [c EXCEPT !.image_tag = tag, !.tag_dflt = FALSE]
    ELSE c

odk_set_oak_cache_directory(c, dir, fgs) ==
    IF c.oak_cache_directory = DEFAULT_OAK_CACHE \/ ~HasFlag(fgs, ODK_NO_OVERWRITE)
    THEN [c EXCEPT !.oak_cache_directory = dir]
    ELSE c

\* The index of the first entry of a list whose key (field name or host_directory,
\* given as the sequence of keys) is k; 0 when there is none.
FirstIndex(keys, k) ==
    IF \E i \in 1..Len(keys) : keys[i] = k
    THEN CHOOSE i \in 1..Len(keys) : keys[i] = k /\ \A j \in 1..(i - 1) : keys[j] # k
    ELSE 0

VarNames(vs) == [i \in 1..Len(vs) |-> vs[i].name]

\* A faulty variant of add_var, which overwrites whatever the flags.
add_var_ignores_flags(vs, name, value, flags) ==
    LET i == FirstIndex(VarNames(vs), name) IN
    IF i # 0 THEN [vs EXCEPT ![i].value = value]
    ELSE Append(vs, [name |-> name, value |-> value])

add_var(vs, name, value, flags) ==
    LET i == FirstIndex(VarNames(vs), name) IN
    IF i # 0
    THEN IF ~HasFlag(flags, ODK_NO_OVERWRITE)
         THEN [vs EXCEPT ![i].value = value]
         ELSE vs
    ELSE Append(vs, [name |-> name, value |-> value])

odk_add_env_var(c, name, value, flags) ==
    [c EXCEPT !.env_vars = add_var(c.env_vars, name, value, flags)]

\* strncmp(option, "-Xmx", 4) == 0
IsXmx(option) == Len(option) >= 4 /\ SubSeq(option, 1, 4) = "-Xmx"

odk_add_java_opt(c, option, flags) ==
    [c EXCEPT !.flags = IF IsXmx(option) THEN SetFlag(c.flags, ODK_FLAG_JAVAMEMSET)
                        ELSE c.flags,
              !.java_opts = add_var(c.java_opts, option, NULL, flags)]

odk_add_java_property(c, name, value, flags) ==
    [c EXCEPT !.java_opts = add_var(c.java_opts, name, value, flags)]

(***************************************************************************)
(* The host's file system as realpath(3) sees it: a path resolves to its   *)
(* canonical form, or fails with ENOENT, or fails with another error.      *)
(***************************************************************************)
HostPaths ==
    { ".", "../..", "relative/../path", "/host", "/link", "/missing", "/forbidden/dir",
      "/home/me/.data/oaklib", "/tmp/ssh-agent.sock" }

realpath(src) ==
    CASE src = "."                     -> [path |-> "/home/me/repo/src/ontology", errno |-> "0"]
      [] src = "../.."                 -> [path |-> "/home/me/repo", errno |-> "0"]
      [] src = "relative/../path"      -> [path |-> "/home/me/repo/src/ontology/path", errno |-> "0"]
      [] src = "/host"                 -> [path |-> "/host", errno |-> "0"]
      [] src = "/link"                 -> [path |-> "/host", errno |-> "0"]
      [] src = "/tmp/ssh-agent.sock"   -> [path |-> "/tmp/ssh-agent.sock", errno |-> "0"]
      [] src = "/forbidden/dir"        -> [path |-> NULL, errno |-> "EACCES"]
      [] OTHER                         -> [path |-> NULL, errno |-> "ENOENT"]

BindHosts(bs) == [i \in 1..Len(bs) |-> bs[i].host_directory]

\* The result of odk_add_binding: the configuration and the return value.
\* A faulty variant first, which stores src as it is given.
odk_add_binding_stores_literal(c, src, dst, fgs) ==
    LET i == FirstIndex(BindHosts(c.bindings), src) IN
    IF i # 0
    THEN [cfg |-> IF ~HasFlag(fgs, ODK_NO_OVERWRITE)
                  THEN [c EXCEPT !.bindings[i].container_directory = dst] ELSE c,
          ret |-> 0]
    ELSE [cfg |-> [c EXCEPT !.bindings = Append(@, [host_directory |-> src,
                                                     container_directory |-> dst])],
          ret |-> 0]

\* Another faulty variant, which does not look for an entry with the same path.
odk_add_binding_always_appends(c, src, dst, fgs) ==
    LET r    == realpath(src)
        path == IF r.path # NULL THEN r.path ELSE src
    IN  IF r.path = NULL /\ r.errno # "ENOENT"
        THEN [cfg |-> c, ret |-> -1]
        ELSE [cfg |-> [c EXCEPT !.bindings = Append(@, [host_directory |-> path,
                                                         container_directory |-> dst])],
              ret |-> 0]

odk_add_binding(c, src, dst, fgs) ==
    LET r    == realpath(src)
        path == IF r.path # NULL THEN r.path ELSE src    \* xstrdup(src) on ENOENT
        i    == FirstIndex(BindHosts(c.bindings), path)
    IN  IF r.path = NULL /\ r.errno # "ENOENT"
        THEN [cfg |-> c, ret |-> -1]
        ELSE IF i # 0
        THEN [cfg |-> IF ~HasFlag(fgs, ODK_NO_OVERWRITE)
                      THEN [c EXCEPT !.bindings[i].container_directory = dst] ELSE c,
              ret |-> 0]
        ELSE [cfg |-> [c EXCEPT !.bindings = Append(@, [host_directory |-> path,
                                                         container_directory |-> dst])],
              ret |-> 0]

(***************************************************************************)
(* procutil.c: spawn_process (fork, execvp, waitpid).  What becomes of the *)
(* child is the host's answer:                                             *)
(*   fork_failed   fork() returned -1                                      *)
(*   exec_failed   execvp() returned in the child, which exits EXIT_FAILURE*)
(*   exited        the program ran and exited with code                    *)
(*   signaled      the program was killed by a signal                      *)
(*   wait_failed   waitpid() returned -1                                   *)
(***************************************************************************)
EXIT_SUCCESS == 0
EXIT_FAILURE == 1

ChildOutcomes(codes) ==
    { [kind |-> k, code |-> 0] : k \in {"fork_failed", "signaled", "wait_failed"} }
      \cup { [kind |-> "exec_failed", code |-> EXIT_FAILURE] }
      \cup { [kind |-> "exited", code |-> k] : k \in codes }

\* A faulty variant of spawn_process, which reports success for any child that exited.
spawn_process_swallows_code(child) ==
    IF child.kind \in {"exited", "exec_failed"} THEN 0 ELSE -1

spawn_process(child) ==
    IF child.kind \in {"exited", "exec_failed"}     \* WIFEXITED(status)
    THEN child.code                                  \* WEXITSTATUS(status)
    ELSE -1

(***************************************************************************)
(* The argument vector a backend's run assembles: the tokens written, in   *)
(* the order of the indices 0, 1, ... they are written at, and the number  *)
(* n of slots that was allocated for them.                                 *)
(***************************************************************************)
TIME_TOKENS ==
    << "/usr/bin/time", "-f",
       "### DEBUG STATS ###\nElapsed time: %E\nPeak memory: %M kb" >>

\* The loop over bindings of backend-docker.c: "-v", "host:container" for each.
RECURSIVE docker_bind_tokens(_, _)
docker_bind_tokens(bs, j) ==
    IF j > Len(bs) THEN << >>
    ELSE << "-v", bs[j].host_directory \o ":" \o bs[j].container_directory >>
         \o docker_bind_tokens(bs, j + 1)

\* The loop over env_vars of backend-docker.c: "-e", "NAME=VALUE" for each
\* entry with a value.
RECURSIVE docker_env_tokens(_, _)
docker_env_tokens(vs, j) ==
    IF j > Len(vs) THEN << >>
    ELSE (IF vs[j].value # NULL
          THEN << "-e", vs[j].name \o "=" \o vs[j].value >>
          ELSE << >>)
         \o docker_env_tokens(vs, j + 1)

\* A faulty variant of the loop, and of run with it, which passes the entries
\* without a value too.
RECURSIVE docker_env_tokens_all(_, _)
docker_env_tokens_all(vs, j) ==
    IF j > Len(vs) THEN << >>
    ELSE << "-e", vs[j].name \o "=" \o vs[j].value >> \o docker_env_tokens_all(vs, j + 1)

docker_run_passes_unset(c, command, child) ==
    [ n    |-> 9 + Len(c.bindings) * 2 + Len(c.env_vars) * 2
                 + (IF HasFlag(c.flags, ODK_FLAG_TIMEDEBUG) THEN 3 ELSE 0) + Len(command),
      argv |-> << "docker", "run", "--rm", "-ti", "-w", c.work_directory >>
               \o docker_bind_tokens(c.bindings, 1)
               \o docker_env_tokens_all(c.env_vars, 1)
               \o << c.image_name \o ":" \o c.image_tag >>
               \o (IF HasFlag(c.flags, ODK_FLAG_TIMEDEBUG) THEN TIME_TOKENS ELSE << >>)
               \o command
               \o << NULL >>,
      rc   |-> spawn_process(child),
      environ |-> << >> ]

\* run of backend-docker.c
docker_run(c, command, child) ==
    [ n    |-> 9 + Len(c.bindings) * 2 + Len(c.env_vars) * 2
                 + (IF HasFlag(c.flags, ODK_FLAG_TIMEDEBUG) THEN 3 ELSE 0) + Len(command),
      argv |-> << "docker", "run", "--rm", "-ti", "-w", c.work_directory >>
               \o docker_bind_tokens(c.bindings, 1)
               \o docker_env_tokens(c.env_vars, 1)
               \o << c.image_name \o ":" \o c.image_tag >>
               \o (IF HasFlag(c.flags, ODK_FLAG_TIMEDEBUG) THEN TIME_TOKENS ELSE << >>)
               \o command
               \o << NULL >>,
      rc   |-> spawn_process(child),
      environ |-> << >> ]

(***************************************************************************)
(* Initial values.                                                         *)
(***************************************************************************)
NoCli   == [ nopts |-> 0, image_name |-> NULL, image_tag |-> NULL, env |-> << >>,
             props |-> << >>, java_mem |-> NULL, backend |-> "docker",
             command |-> << >>, seed |-> FALSE, owlapi |-> << >> ]
NoHost  == [ family |-> "none" ]
NoBackend == [ kind |-> "none", prepare |-> FALSE, total_memory |-> 0 ]
NoCalls == [ prepare |-> 0, run |-> 0, close |-> 0, prepare_ret |-> 0, run_ret |-> 0,
             child |-> [kind |-> "none", code |-> 0], n |-> 0, argv |-> << >>,
             environ |-> << >>, at_prepare |-> odk_init_config,
             at_run |-> odk_init_config, heap |-> "ok" ]
NoLast  == [ op |-> "none", count |-> 0 ]

(***************************************************************************)
(* SpecApi: the RunConfig API of runner.c called directly, MaxCalls times  *)
(* at most, on a configuration that starts as odk_init_config leaves it,   *)
(* and then one backend's run on the configuration so built.               *)
(***************************************************************************)
ApiNames    == { "FOO", "BAR" }
ApiValues   == { "bar", "baz", NULL }
ApiFlags    == { 0, ODK_NO_OVERWRITE }
ApiSources  == { "/host", "/link", "/missing", "/forbidden/dir", "relative/../path" }
ApiTargets  == { "/container", "/data" }
ApiCommands == { << >>, << "make" >>, << "robot", "--version" >> }
ApiChildren == ChildOutcomes({0, 2})

InitApi ==
    /\ pc = "api"
    /\ cfg = odk_init_config
    /\ cli = NoCli
    /\ host = NoHost
    /\ backend = NoBackend
    /\ ret = 0
    /\ status = [end |-> "no", code |-> 0]
    /\ calls = NoCalls
    /\ last = NoLast

ApiAddEnvVar ==
    /\ pc = "api"
    /\ last.count < MaxCalls
    /\ \E name \in ApiNames, value \in ApiValues, flags \in ApiFlags :
          /\ cfg' = odk_add_env_var(cfg, name, value, flags)
          /\ last' = [ op |-> "odk_add_env_var", count |-> last.count + 1, before |-> cfg,
                       name |-> name, value |-> value, flags |-> flags ]
    /\ UNCHANGED <<pc, cli, host, backend, ret, status, calls>>

ApiAddBinding ==
    /\ pc = "api"
    /\ last.count < MaxCalls
    /\ \E src \in ApiSources, dst \in ApiTargets, fgs \in ApiFlags :
          LET r == odk_add_binding(cfg, src, dst, fgs) IN
          /\ cfg' = r.cfg
          /\ last' = [ op |-> "odk_add_binding", count |-> last.count + 1, before |-> cfg,
                       src |-> src, dst |-> dst, fgs |-> fgs, ret |-> r.ret ]
    /\ UNCHANGED <<pc, cli, host, backend, ret, status, calls>>

\* cfg.flags |= ODK_FLAG_TIMEDEBUG, as main() does for -d.
ApiSetDebug ==
    /\ pc = "api"
    /\ last.count < MaxCalls
    /\ ~HasFlag(cfg.flags, ODK_FLAG_TIMEDEBUG)
    /\ cfg' = [cfg EXCEPT !.flags = SetFlag(@, ODK_FLAG_TIMEDEBUG)]
    /\ last' = [ op |-> "set_debug", count |-> last.count + 1, before |-> cfg ]
    /\ UNCHANGED <<pc, cli, host, backend, ret, status, calls>>

ApiRunDocker ==
    /\ pc = "api"
    /\ \E command \in ApiCommands, child \in ApiChildren :
          LET r == docker_run(cfg, command, child) IN
          /\ calls' = [calls EXCEPT !.run = 1, !.run_ret = r.rc, !.child = child,
                                    !.n = r.n, !.argv = r.argv, !.at_run = cfg]
          /\ cli' = [cli EXCEPT !.command = command]
          /\ backend' = [kind |-> "docker", prepare |-> TRUE, total_memory |-> 0]
    /\ pc' = "api_done"
    /\ UNCHANGED <<cfg, host, ret, status, last>>

(***************************************************************************)
(* C string functions.                                                     *)
(***************************************************************************)
CharAt(s, i) == SubSeq(s, i, i)
From(s, i)   == SubSeq(s, i, Len(s))

\* strchr / strrchr: the position of the first / last ch in s, 0 for NULL
StrChr(s, ch) ==
    IF \E i \in 1..Len(s) : CharAt(s, i) = ch
    THEN CHOOSE i \in 1..Len(s) : CharAt(s, i) = ch /\ \A j \in 1..(i - 1) : CharAt(s, j) # ch
    ELSE 0

StrRChr(s, ch) ==
    IF \E i \in 1..Len(s) : CharAt(s, i) = ch
    THEN CHOOSE i \in 1..Len(s) : CharAt(s, i) = ch /\ \A j \in (i + 1)..Len(s) : CharAt(s, j) # ch
    ELSE 0

\* strncmp(prefix, s, strlen(prefix)) == 0
HasPrefix(s, prefix) == Len(s) >= Len(prefix) /\ SubSeq(s, 1, Len(prefix)) = prefix

\* The tokens strtok() returns for s and the one-character delimiter d.
RECURSIVE strtok(_, _)
strtok(s, d) ==
    IF s = "" THEN << >>
    ELSE LET i == StrChr(s, d) IN
         IF i = 0 THEN << s >>
         ELSE IF i = 1 THEN strtok(From(s, 2), d)
         ELSE << SubSeq(s, 1, i - 1) >> \o strtok(From(s, i + 1), d)

IsDigit(ch) == ch \in { "0", "1", "2", "3", "4", "5", "6", "7", "8", "9" }

DigitValue(ch) ==
    CASE ch = "0" -> 0 [] ch = "1" -> 1 [] ch = "2" -> 2 [] ch = "3" -> 3 [] ch = "4" -> 4
      [] ch = "5" -> 5 [] ch = "6" -> 6 [] ch = "7" -> 7 [] ch = "8" -> 8 [] ch = "9" -> 9

\* The number of leading decimal digits of s.
RECURSIVE LeadingDigits(_)
LeadingDigits(s) ==
    IF s # "" /\ IsDigit(CharAt(s, 1)) THEN 1 + LeadingDigits(From(s, 2)) ELSE 0

\* The value of a string of decimal digits.
RECURSIVE DecimalValue(_)
DecimalValue(s) ==
    IF s = "" THEN 0
    ELSE 10 * DecimalValue(SubSeq(s, 1, Len(s) - 1)) + DigitValue(CharAt(s, Len(s)))

(***************************************************************************)
(* owlapi.c.  The option table (owlapi-options.h) lists, for each option,  *)
(* the symbol of the OWLAPI configuration option, the name it goes by on   *)
(* the command line, and its type.                                         *)
(***************************************************************************)
OWLAPI_OPTION_NAMESPACE == "org.semanticweb.owlapi.model.parameters.ConfigurationOptions"

OwlapiOptions ==
    { [symbol |-> "CONNECTION_TIMEOUT", name |-> "connection-timeout", type |-> "INTEGER"],
      [symbol |-> "LOAD_ANNOTATIONS",   name |-> "load-annotations",   type |-> "BOOLEAN"] }

\* strtol(value, &endptr, 10); ok = *endptr == '\0'
IsWholeInteger(value) ==
    LET body == IF value # "" /\ CharAt(value, 1) \in {"+", "-"} THEN From(value, 2) ELSE value
    IN  value = "" \/ (body # "" /\ LeadingDigits(body) = Len(body))

OwlapiValueOk(option, value) ==
    CASE option.type = "INTEGER" -> IsWholeInteger(value)
      [] option.type = "BOOLEAN" -> value \in { "true", "false" }
      [] OTHER                   -> TRUE

\* get_owlapi_java_property(arg, &property, &value, &error)
get_owlapi_java_property(arg) ==
    LET eq == StrChr(arg, "=") IN
    IF eq = 0 \/ eq = Len(arg)
    THEN [ret |-> -1, property |-> NULL, value |-> NULL, error |-> "Missing option value"]
    ELSE LET name  == SubSeq(arg, 1, eq - 1)
             value == From(arg, eq + 1)
             found == { o \in OwlapiOptions : o.name = name }
         IN  IF found = {}
             THEN [ret |-> -1, property |-> NULL, value |-> value, error |-> "Unknown option"]
             ELSE LET o == CHOOSE o \in found : TRUE IN
                  IF OwlapiValueOk(o, value)
                  THEN [ret |-> 0, property |-> OWLAPI_OPTION_NAMESPACE \o "." \o o.symbol,
                        value |-> value, error |-> NULL]
                  ELSE [ret |-> -1, property |-> OWLAPI_OPTION_NAMESPACE \o "." \o o.symbol,
                        value |-> value, error |-> "Invalid value"]

\* get_owlapi_java_property_from_name(name, value, &property, &error), for the
\* OWLAPI_<symbol> keys of run.sh.conf.
get_owlapi_java_property_from_name(name, value) ==
    LET found == { o \in OwlapiOptions : o.symbol = name } IN
    IF found = {}
    THEN [ret |-> -1, property |-> NULL]
    ELSE LET o == CHOOSE o \in found : TRUE IN
         IF OwlapiValueOk(o, value)
         THEN [ret |-> 0, property |-> OWLAPI_OPTION_NAMESPACE \o "." \o o.symbol]
         ELSE [ret |-> -1, property |-> NULL]

(***************************************************************************)
(* runconf.c.  Its calls of odk_add_env_var, odk_add_java_opt,             *)
(* odk_add_java_property and odk_add_binding pass no flags argument: the   *)
(* value the callee reads for it is indeterminate, and is the parameter    *)
(* noflags of the operators below.                                         *)
(***************************************************************************)

\* process_bind_spec(spec, lineno, cfg); home is getenv("HOME")
process_bind_spec(spec, c, noflags, home) ==
    LET colon == StrChr(spec, ":") IN
    IF colon = 0 \/ colon = Len(spec) \/ CharAt(spec, colon + 1) = ":"
    THEN [cfg |-> c, ret |-> -1]
    ELSE LET src  == SubSeq(spec, 1, colon - 1)
             rest == From(spec, colon + 1)
             opt  == StrChr(rest, ":")
             dst  == IF opt = 0 THEN rest ELSE SubSeq(rest, 1, opt - 1)
         IN  IF src # "" /\ CharAt(src, 1) = "~" /\ home = NULL
             THEN [cfg |-> c, ret |-> -1]
             ELSE LET path == IF src # "" /\ CharAt(src, 1) = "~"
                              THEN home \o From(src, 2) ELSE src
                      r    == odk_add_binding(c, path, dst, noflags)
                  IN  IF r.ret = -1 THEN [cfg |-> c, ret |-> -1]
                      ELSE [cfg |-> r.cfg, ret |-> 0]

\* while ( (token = strtok(value, ",")) ) ret += process_bind_spec(token, lineno, cfg);
RECURSIVE process_bind_specs(_, _, _, _, _)
process_bind_specs(tokens, c, ret0, noflags, home) ==
    IF tokens = << >> THEN [cfg |-> c, ret |-> ret0]
    ELSE LET r == process_bind_spec(Head(tokens), c, noflags, home) IN
         process_bind_specs(Tail(tokens), r.cfg, ret0 + r.ret, noflags, home)

\* while ( (token = strtok(value, " ")) ) odk_add_java_opt(cfg, mr_strdup(NULL, token));
RECURSIVE add_java_opts(_, _, _)
add_java_opts(tokens, c, flags) ==
    IF tokens = << >> THEN c
    ELSE add_java_opts(Tail(tokens), odk_add_java_opt(c, Head(tokens), flags), flags)

\* process_line(line, len, lineno, cfg)
process_line(line, c, noflags, home) ==
    IF line = "" \/ CharAt(line, 1) = "#" THEN [cfg |-> c, ret |-> 0]
    ELSE
    LET eq == StrChr(line, "=") IN
    IF eq = 0 THEN [cfg |-> c, ret |-> -1]                      \* value-less option
    ELSE
    LET key     == SubSeq(line, 1, eq - 1)
        raw     == From(line, eq + 1)
        quoted  == /\ raw # ""
                   /\ CharAt(raw, 1) \in { "'", "\"" }
                   /\ CharAt(raw, Len(raw)) = CharAt(raw, 1)
        \* A value that is one quote character alone is its own closing quote:
        \* value then points to the terminator, and value_len wraps around.
        value     == IF quoted THEN SubSeq(raw, 2, Len(raw) - 1) ELSE raw
        value_len == IF quoted THEN Len(raw) - 2 ELSE Len(raw)
    IN  IF value_len = 0
        THEN [cfg |-> c, ret |-> -1]                            \* empty value
        ELSE IF key = "ODK_IMAGE"
        THEN [cfg |-> [c EXCEPT !.image_name = value, !.name_dflt = FALSE], ret |-> 0]
        ELSE IF key = "ODK_TAG"
        THEN [cfg |-> [c EXCEPT !.image_tag = value, !.tag_dflt = FALSE], ret |-> 0]
        ELSE IF key = "ODK_DEBUG" /\ value = "yes"
        THEN [cfg |-> odk_add_env_var([c EXCEPT !.flags = SetFlag(@, ODK_FLAG_TIMEDEBUG)],
                                      "ODK_DEBUG", "yes", noflags),
              ret |-> 0]
        ELSE IF key = "ODK_JAVA_OPTS"
        THEN [cfg |-> add_java_opts(strtok(value, " "), c, noflags), ret |-> 0]
        ELSE IF key = "ODK_BINDS"
        THEN process_bind_specs(strtok(value, ","), c, 0, noflags, home)
        ELSE IF HasPrefix(key, "OWLAPI_")
        THEN LET o == get_owlapi_java_property_from_name(From(key, 8), value) IN
             IF o.ret # -1
             THEN [cfg |-> odk_add_java_property(c, o.property, value, noflags), ret |-> 0]
             ELSE [cfg |-> c, ret |-> -1]
        ELSE IF key = "ODK_USER_ID"
        THEN IF value = "0"
             THEN [cfg |-> [c EXCEPT !.flags = SetFlag(@, ODK_FLAG_RUNASROOT)], ret |-> 0]
             ELSE [cfg |-> c, ret |-> -1]
        ELSE [cfg |-> c, ret |-> -1]                            \* unsupported option

\* The loop of load_run_conf over the lines getline() delivers.
RECURSIVE process_lines(_, _, _, _, _)
process_lines(lines, c, ret0, noflags, home) ==
    IF lines = << >> THEN [cfg |-> c, ret |-> ret0]
    ELSE LET r == process_line(Head(lines), c, noflags, home) IN
         process_lines(Tail(lines), r.cfg, ret0 + (- r.ret), noflags, home)

(* A run.sh.conf as the host presents it: whether stat() finds it, whether *)
(* fopen() opens it, its lines, and how many lines getline() delivers      *)
(* before it fails with an error (-1: it never fails).                     *)
NoFile == [exists |-> FALSE, opens |-> FALSE, lines |-> << >>, fails_after |-> -1]

\* A faulty variant of load_run_conf, which gives up at the first line in error.
RECURSIVE process_lines_until_error(_, _, _, _)
process_lines_until_error(lines, c, noflags, home) ==
    IF lines = << >> THEN [cfg |-> c, ret |-> 0]
    ELSE LET r == process_line(Head(lines), c, noflags, home) IN
         IF r.ret # 0 THEN [cfg |-> r.cfg, ret |-> - r.ret]
         ELSE process_lines_until_error(Tail(lines), r.cfg, noflags, home)

load_run_conf_stops_at_error(c, file, noflags, home) ==
    IF ~file.exists THEN [cfg |-> c, ret |-> 0]
    ELSE IF ~file.opens THEN [cfg |-> c, ret |-> -1]
    ELSE IF file.fails_after >= 0
         THEN [cfg |-> process_lines_until_error(SubSeq(file.lines, 1, file.fails_after), c,
                                                 noflags, home).cfg,
               ret |-> -1]
         ELSE process_lines_until_error(file.lines, c, noflags, home)

\* load_run_conf(cfg)
load_run_conf(c, file, noflags, home) ==
    IF ~file.exists THEN [cfg |-> c, ret |-> 0]                 \* file_exists() != 0
    ELSE IF ~file.opens THEN [cfg |-> c, ret |-> -1]            \* fopen() failed
    ELSE IF file.fails_after >= 0
         THEN [cfg |-> process_lines(SubSeq(file.lines, 1, file.fails_after), c, 0,
                                     noflags, home).cfg,
               ret |-> -1]
         ELSE process_lines(file.lines, c, 0, noflags, home)

(***************************************************************************)
(* odkrun.c: helper functions.  An operator that may end the launcher      *)
(* (errx, err, exit, a failed assertion) returns how it ended, in field    *)
(* end: "no" (it returned), "exit" (with field code), "abort".             *)
(***************************************************************************)
Goes(c)        == [cfg |-> c, end |-> "no", code |-> 0]
Exits(c, code) == [cfg |-> c, end |-> "exit", code |-> code]
Aborts(c)      == [cfg |-> c, end |-> "abort", code |-> 0]

\* split_key_value_pair(arg, opt_name): the position of the '=' that splits arg,
\* 0 when errx() ends the launcher instead.
split_key_value_pair(arg) ==
    LET eq == StrChr(arg, "=") IN
    IF eq = 0 \/ eq = Len(arg) THEN 0 ELSE eq

\* A faulty variant of handle_owlapi_option, which lets an option it cannot
\* use pass.
handle_owlapi_option_lenient(c, option) ==
    IF option = "help" THEN Exits(c, 0)
    ELSE LET r == get_owlapi_java_property(option) IN
         IF r.ret < 0 THEN Goes(c)
         ELSE Goes(odk_add_java_property(c, r.property, r.value, 0))

\* handle_owlapi_option(cfg, option)
handle_owlapi_option(c, option) ==
    IF option = "help" THEN Exits(c, 0)
    ELSE LET r == get_owlapi_java_property(option) IN
         IF r.ret < 0 THEN Exits(c, EXIT_FAILURE)
         ELSE Goes(odk_add_java_property(c, r.property, r.value, 0))

GH_TOKEN_FILE == "ontology-development-kit/github/token"

\* file_exists(path) of util.c: stat(path, &st), after assert(path != NULL).
\* files is the set of the paths that exist; asserts tells whether the build
\* has assertions enabled (without them stat(NULL) fails).
file_exists(path, files, asserts) ==
    IF path = NULL THEN (IF asserts THEN "abort" ELSE "-1")
    ELSE IF path \in files THEN "0" ELSE "-1"

\* set_github_token(cfg); h is the host: its environment (NULL for a variable
\* that is not set), the set of files that exist, and what read_file() returns
\* for the token file (NULL when it fails).
set_github_token(c, h, asserts) ==
    IF h.GH_TOKEN # NULL
    THEN Goes(odk_add_env_var(c, "GH_TOKEN", h.GH_TOKEN, 0))
    ELSE
    LET repo_path == "../../.github/token.txt"
        sys_path  == IF h.XDG_CONFIG_HOME # NULL
                     THEN h.XDG_CONFIG_HOME \o "/" \o GH_TOKEN_FILE
                     ELSE IF h.HOME # NULL
                     THEN h.HOME \o "/.config/" \o GH_TOKEN_FILE
                     ELSE NULL
        in_repo   == file_exists(repo_path, h.files, asserts)
        in_sys    == file_exists(sys_path, h.files, asserts)
        token_path == IF in_repo # "-1" THEN repo_path
                      ELSE IF in_sys = "-1" THEN NULL ELSE sys_path
    IN  IF in_repo = "-1" /\ in_sys = "abort" THEN Aborts(c)
        ELSE IF token_path = NULL THEN Goes(c)
        ELSE IF h.token_file = NULL THEN Exits(c, EXIT_FAILURE)
        ELSE LET len   == Len(h.token_file)
                 token == IF len > 0 /\ CharAt(h.token_file, len) = "\n"
                          THEN SubSeq(h.token_file, 1, len - 1) ELSE h.token_file
             IN  Goes(odk_add_env_var(c, "GH_TOKEN", token, 0))

\* The paths set_github_token hands to file_exists, in the order of the calls.
set_github_token_paths(h) ==
    LET repo_path == "../../.github/token.txt"
        sys_path  == IF h.XDG_CONFIG_HOME # NULL
                     THEN h.XDG_CONFIG_HOME \o "/" \o GH_TOKEN_FILE
                     ELSE IF h.HOME # NULL
                     THEN h.HOME \o "/.config/" \o GH_TOKEN_FILE
                     ELSE NULL
    IN  IF h.GH_TOKEN # NULL THEN << >>
        ELSE IF repo_path \in h.files THEN << repo_path >>
        ELSE << repo_path, sys_path >>

\* set_git_user(cfg); git_name and git_email are what "git config --get" prints
\* (NULL when the pipe delivers no line).
set_git_user(c, h) ==
    LET git_user  == IF h.GIT_AUTHOR_NAME # NULL THEN h.GIT_AUTHOR_NAME ELSE h.git_name
        git_email == IF h.GIT_AUTHOR_EMAIL # NULL THEN h.GIT_AUTHOR_EMAIL ELSE h.git_email
        c1 == IF git_user # NULL
              THEN odk_add_env_var(odk_add_env_var(c, "GIT_AUTHOR_NAME", git_user, 0),
                                   "GIT_COMMITTER_NAME", git_user, 0)
              ELSE c
    IN  IF git_email # NULL
        THEN odk_add_env_var(odk_add_env_var(c1, "GIT_AUTHOR_EMAIL", git_email, 0),
                             "GIT_COMMITTER_EMAIL", git_email, 0)
        ELSE c1

\* strstr(s, t): the position of the first occurrence of t in s, 0 for NULL
StrStr(s, t) ==
    LET at == { i \in 1..(Len(s) - Len(t) + 1) : SubSeq(s, i, i + Len(t) - 1) = t } IN
    IF at = {} THEN 0 ELSE CHOOSE i \in at : \A j \in at : i <= j

\* is_odk_repository(directory); odk_yaml: a file matching *-odk.yaml is there
is_odk_repository(directory, odk_yaml) ==
    IF ~odk_yaml THEN FALSE
    ELSE LET path == realpath(directory).path
             p    == StrStr(path, "/src/ontology")
         IN  p # 0 /\ p + 13 = Len(path) + 1

\* set_work_directory(cfg)
set_work_directory(c, h) ==
    LET inrepo == is_odk_repository(".", h.odk_yaml)
        cwd    == IF inrepo THEN "../.." ELSE "."
        c1     == IF inrepo
                  THEN [c EXCEPT !.work_directory = "/work/src/ontology",
                                 !.flags = SetFlag(@, ODK_FLAG_INODKREPO)]
                  ELSE c
        r      == odk_add_binding(c1, cwd, "/work", 0)
    IN  IF r.ret = -1 THEN Exits(c1, EXIT_FAILURE) ELSE Goes(r.cfg)

\* get_host_and_port(str, &port); port0 is what *port holds before the call
get_host_and_port(str, port0) ==
    IF StrChr(str, ":") = 0 THEN [host |-> str, port |-> port0]
    ELSE LET hst  == IF HasPrefix(str, "http://") THEN From(str, 8)
                     ELSE IF HasPrefix(str, "https://") THEN From(str, 9)
                     ELSE str
             colon == StrRChr(hst, ":")
         IN  IF colon # 0
             THEN [host |-> SubSeq(hst, 1, colon - 1), port |-> From(hst, colon + 1)]
             ELSE [host |-> hst, port |-> port0]

\* while ( (p = strchr(p, ',')) ) *p++ = '|';
RECURSIVE CommasToPipes(_)
CommasToPipes(str) ==
    IF str = "" THEN ""
    ELSE (IF CharAt(str, 1) = "," THEN "|" ELSE CharAt(str, 1)) \o CommasToPipes(From(str, 2))

\* set_http_proxy(cfg).  http_proxy, https_proxy and no_proxy are what getenv()
\* returns for the lower-case name or else for the upper-case one.  In the HTTPS
\* branch port is not initialised: uninit is what it holds.
set_http_proxy(c, h, uninit) ==
    LET hp == get_host_and_port(h.http_proxy, NULL)
        c1 == IF h.http_proxy # NULL
              THEN LET a == odk_add_env_var(c, "http_proxy", h.http_proxy, ODK_NO_OVERWRITE)
                       b == odk_add_java_property(a, "http.proxyHost", hp.host, ODK_NO_OVERWRITE)
                   IN  IF hp.port # NULL
                       THEN odk_add_java_property(b, "http.proxyPort", hp.port, ODK_NO_OVERWRITE)
                       ELSE b
              ELSE c
        sp == get_host_and_port(h.https_proxy, uninit)
        c2 == IF h.https_proxy # NULL
              THEN LET a == odk_add_env_var(c1, "https_proxy", h.https_proxy, ODK_NO_OVERWRITE)
                       b == odk_add_java_property(a, "https.proxyHost", sp.host, ODK_NO_OVERWRITE)
                   IN  IF sp.port # NULL
                       THEN odk_add_java_property(b, "https.proxyPort", sp.port, ODK_NO_OVERWRITE)
                       ELSE b
              ELSE c1
    IN  IF h.no_proxy # NULL
        THEN odk_add_java_property(
                 odk_add_env_var(c2, "no_proxy", h.no_proxy, ODK_NO_OVERWRITE),
                 "http.nonProxyHosts", CommasToPipes(h.no_proxy), ODK_NO_OVERWRITE)
        ELSE c2

\* 1024 * 1024 * 1024 bytes, in MiB
GiB == 1024

\* (total_memory * (amount / 100.0)) / (1024 * 1024 * 1024), converted to size_t.
\* amount / 100.0 is a double, the product is rounded to a double, and where the
\* exact product is a whole number of GiB the rounded one may fall just below it:
\* RoundedBelow lists the pairs (total_memory in MiB, amount) up to 64 GiB and
\* 200% for which it does.
RoundedBelow ==
    { <<25600, 116>>, <<46080, 140>>, <<51200, 58>>, <<51200, 114>>, <<51200, 116>> }

PercentOfMemory(total_memory, amount) ==
    LET exact == (total_memory * amount) \div (100 * GiB) IN
    IF <<total_memory, amount>> \in RoundedBelow THEN exact - 1 ELSE exact

\* A faulty variant of set_max_java_mem, which rounds the default up.
set_max_java_mem_rounds_up(c, total_memory, requested) ==
    LET amount == IF requested = NULL /\ ~HasFlag(c.flags, ODK_FLAG_JAVAMEMSET)
                     /\ total_memory > 0
                  THEN (total_memory * 9 + 10 * GiB - 1) \div (10 * GiB) ELSE 0
    IN  IF amount > 0
        THEN Goes(odk_add_java_opt(c, "-Xmx" \o ToString(amount) \o "G", 0))
        ELSE Goes(c)

\* set_max_java_mem(cfg, total_memory, requested); total_memory in MiB
set_max_java_mem(c, total_memory, requested) ==
    IF requested # NULL
    THEN LET k == LeadingDigits(requested) IN                   \* sscanf "%zu%c"
         IF k = 0 \/ k = Len(requested) THEN Exits(c, EXIT_FAILURE)
         ELSE LET given == DecimalValue(SubSeq(requested, 1, k))
                  unit0 == CharAt(requested, k + 1)
              IN  IF unit0 = "%" /\ total_memory = 0 THEN Exits(c, EXIT_FAILURE)
                  ELSE LET amount == IF unit0 = "%"
                                     THEN PercentOfMemory(total_memory, given)
                                     ELSE given
                           unit   == IF unit0 = "%" THEN "G" ELSE unit0
                       IN  IF unit \notin { "m", "M", "g", "G" } THEN Exits(c, EXIT_FAILURE)
                           ELSE IF amount > 0
                           THEN Goes(odk_add_java_opt(c, "-Xmx" \o ToString(amount) \o unit, 0))
                           ELSE Goes(c)
    ELSE IF ~HasFlag(c.flags, ODK_FLAG_JAVAMEMSET) /\ total_memory > 0
    THEN LET amount == (total_memory * 9) \div (10 * GiB) IN
         IF amount > 0
         THEN Goes(odk_add_java_opt(c, "-Xmx" \o ToString(amount) \o "G", 0))
         ELSE Goes(c)
    ELSE Goes(c)

(***************************************************************************)
(* runner.c: odk_make_java_args.                                           *)
(***************************************************************************)

\* The first loop: the number of bytes to allocate.
RECURSIVE java_args_needed(_, _)
java_args_needed(opts, i) ==
    IF i > Len(opts) THEN 0
    ELSE (IF i > 1 THEN 1 ELSE 0)
         + Len(opts[i].name)
         + (IF opts[i].value # NULL THEN 3 + Len(opts[i].value) ELSE 0)
         + java_args_needed(opts, i + 1)

\* The second loop without its separators.
RECURSIVE java_args_written_unseparated(_, _)
java_args_written_unseparated(opts, i) ==
    IF i > Len(opts) THEN ""
    ELSE (IF opts[i].value # NULL
          THEN "-D" \o opts[i].name \o "=" \o opts[i].value
          ELSE opts[i].name)
         \o java_args_written_unseparated(opts, i + 1)

\* The second loop: the characters written, before the terminating NUL.
RECURSIVE java_args_written(_, _)
java_args_written(opts, i) ==
    IF i > Len(opts) THEN ""
    ELSE (IF i > 1 THEN " " ELSE "")
         \o (IF opts[i].value # NULL
             THEN "-D" \o opts[i].name \o "=" \o opts[i].value
             ELSE opts[i].name)
         \o java_args_written(opts, i + 1)

\* A faulty variant of odk_make_java_args, which leaves the two variables alone
\* where the configuration already has them.
odk_make_java_args_keeps_env(c, to_env) ==
    LET needed == java_args_needed(c.java_opts, 1)
        buffer == IF needed > 0 THEN java_args_written(c.java_opts, 1) ELSE NULL
    IN  [ cfg    |-> IF to_env
                     THEN odk_add_env_var(odk_add_env_var(c, "ODK_JAVA_OPTS", buffer,
                                                          ODK_NO_OVERWRITE),
                                          "ROBOT_JAVA_ARGS", buffer, ODK_NO_OVERWRITE)
                     ELSE c,
          buffer |-> buffer,
          needed |-> needed,
          bytes  |-> IF c.java_opts = << >> THEN 0
                     ELSE Len(java_args_written(c.java_opts, 1)) + 1 ]

\* odk_make_java_args(cfg, to_env): the configuration, the buffer returned, the
\* bytes allocated for it and the bytes written to it (with the NUL).
odk_make_java_args(c, to_env) ==
    LET needed == java_args_needed(c.java_opts, 1)
        buffer == IF needed > 0 THEN java_args_written(c.java_opts, 1) ELSE NULL
    IN  [ cfg    |-> IF to_env
                     THEN odk_add_env_var(odk_add_env_var(c, "ODK_JAVA_OPTS", buffer, 0),
                                          "ROBOT_JAVA_ARGS", buffer, 0)
                     ELSE c,
          buffer |-> buffer,
          needed |-> needed,
          bytes  |-> IF c.java_opts = << >> THEN 0
                     ELSE Len(java_args_written(c.java_opts, 1)) + 1 ]

(***************************************************************************)
(* oaklib.c                                                                *)
(***************************************************************************)
OAKLIB_NAME    == "oaklib"
USER_CACHEDIR  == "/home/odkuser/.data/oaklib"
ROOT_CACHEDIR  == "/root/.data/oaklib"
CACHE_PATH_MAX == 2048
ODK_SHARING_OAKLIB_USER_CACHE == "user"
ODK_SHARING_OAKLIB_REPO_CACHE == "repo"

UpperCase == "ABCDEFGHIJKLMNOPQRSTUVWXYZ"
LowerCase == "abcdefghijklmnopqrstuvwxyz"

RECURSIVE ToLower(_)
ToLower(str) ==
    IF str = "" THEN ""
    ELSE LET i == StrChr(UpperCase, CharAt(str, 1)) IN
         (IF i = 0 THEN CharAt(str, 1) ELSE CharAt(LowerCase, i)) \o ToLower(From(str, 2))

\* strcasecmp(a, b) == 0
SameIgnoringCase(a, b) == ToLower(a) = ToLower(b)

\* snprintf(buffer, len, ...): the length of the whole text is returned, and the
\* buffer holds what fits.
Snprintf(len, text) ==
    [ret |-> Len(text), buffer |-> IF Len(text) < len THEN text ELSE SubSeq(text, 1, len - 1)]

\* get_oaklib_cache_directory(buffer, len); junk is what the buffer holds when
\* nothing is written to it.
get_oaklib_cache_directory(len, h, junk) ==
    IF h.OAKLIB_HOME # NULL THEN Snprintf(len, h.OAKLIB_HOME)
    ELSE IF h.PYSTOW_HOME # NULL THEN Snprintf(len, h.PYSTOW_HOME \o "/" \o OAKLIB_NAME)
    ELSE IF h.PYSTOW_USE_APPDIRS # NULL /\ SameIgnoringCase(h.PYSTOW_USE_APPDIRS, "true")
    THEN IF h.XDG_DATA_DIR # NULL THEN Snprintf(len, h.XDG_DATA_DIR \o "/" \o OAKLIB_NAME)
         ELSE IF h.HOME # NULL THEN Snprintf(len, h.HOME \o "/.local/share/" \o OAKLIB_NAME)
         ELSE [ret |-> -1, buffer |-> junk]
    ELSE LET pystow_name == IF h.PYSTOW_NAME = NULL THEN ".data" ELSE h.PYSTOW_NAME IN
         IF h.HOME # NULL
         THEN Snprintf(len, h.HOME \o "/" \o pystow_name \o "/" \o OAKLIB_NAME)
         ELSE [ret |-> -1, buffer |-> junk]

\* share_oaklib_cache(cfg, dir)
share_oaklib_cache(c, dir, h, junk) ==
    LET dest_dir == IF HasFlag(c.flags, ODK_FLAG_RUNASROOT) THEN ROOT_CACHEDIR
                    ELSE USER_CACHEDIR
    IN  IF SameIgnoringCase(ODK_SHARING_OAKLIB_USER_CACHE, dir)
        THEN LET d == get_oaklib_cache_directory(CACHE_PATH_MAX, h, junk) IN
             IF d.ret >= CACHE_PATH_MAX THEN [cfg |-> c, ret |-> -1]
             ELSE [cfg |-> odk_add_binding(c, d.buffer, dest_dir, 0).cfg, ret |-> 0]
        ELSE IF SameIgnoringCase(ODK_SHARING_OAKLIB_REPO_CACHE, dir)
        THEN [cfg |-> IF HasFlag(c.flags, ODK_FLAG_INODKREPO)
                      THEN odk_add_env_var(c, "OAKLIB_HOME", "/work/src/ontology/tmp/oaklib", 0)
                      ELSE c,
              ret |-> 0]
        ELSE [cfg |-> odk_add_binding(c, dir, dest_dir, 0).cfg, ret |-> 0]

(***************************************************************************)
(* backend-docker.c, backend-singularity.c, backend-native.c               *)
(***************************************************************************)
DOCKER_SSH_SOCKET      == "/run/host-services/ssh-auth.sock"
SINGULARITY_SSH_SOCKET == "/run/host-services/ssh-auth.sock"

\* odk_backend_docker_init with get_total_memory: docker_info is the integer
\* that "docker info --format={{.MemTotal}}" prints, in MiB, or -1 when popen()
\* fails or fscanf() reads no integer.
odk_backend_docker_init(h) ==
    [ ret     |-> IF h.docker_info = -1 THEN -1 ELSE 0,
      backend |-> [ kind |-> "docker", prepare |-> TRUE,
                    total_memory |-> IF h.docker_info = -1 THEN 0 ELSE h.docker_info ] ]

\* odk_backend_singularity_init; phys_mem is get_physical_memory(), in MiB
odk_backend_singularity_init(h) ==
    [ ret     |-> 0,
      backend |-> [ kind |-> "singularity", prepare |-> TRUE, total_memory |-> h.phys_mem ] ]

\* odk_backend_native_init
odk_backend_native_init(h) ==
    [ ret     |-> 0,
      backend |-> [ kind |-> "native", prepare |-> FALSE, total_memory |-> h.phys_mem ] ]

\* A faulty variant of prepare of backend-docker.c, which starts the environment
\* of the container afresh.
docker_prepare_resets_env(c, h, noflags) ==
    LET c0 == [c EXCEPT !.env_vars = << >>]
        c1 == IF ~HasFlag(c.flags, ODK_FLAG_RUNASROOT)
              THEN odk_add_env_var(odk_add_env_var(c0, "ODK_USER_ID", h.uid, noflags),
                                   "ODK_GROUP_ID", h.gid, noflags)
              ELSE c0
    IN  [ cfg |-> IF h.SSH_AUTH_SOCK # NULL
                  THEN odk_add_env_var(
                           odk_add_binding(c1, h.SSH_AUTH_SOCK, DOCKER_SSH_SOCKET, noflags).cfg,
                           "SSH_AUTH_SOCK", DOCKER_SSH_SOCKET, noflags)
                  ELSE c1,
          ret |-> 0 ]

\* prepare of backend-docker.c; its calls pass no flags argument (noflags)
docker_prepare(c, h, noflags) ==
    LET c1 == IF ~HasFlag(c.flags, ODK_FLAG_RUNASROOT)
              THEN odk_add_env_var(odk_add_env_var(c, "ODK_USER_ID", h.uid, noflags),
                                   "ODK_GROUP_ID", h.gid, noflags)
              ELSE c
    IN  [ cfg |-> IF h.SSH_AUTH_SOCK # NULL
                  THEN odk_add_env_var(
                           odk_add_binding(c1, h.SSH_AUTH_SOCK, DOCKER_SSH_SOCKET, noflags).cfg,
                           "SSH_AUTH_SOCK", DOCKER_SSH_SOCKET, noflags)
                  ELSE c1,
          ret |-> 0 ]

\* prepare of backend-singularity.c
singularity_prepare(c, h) ==
    LET c1 == IF ~HasFlag(c.flags, ODK_FLAG_RUNASROOT)
              THEN odk_add_env_var(odk_add_env_var(c, "ODK_USER_ID", h.uid, 0),
                                   "ODK_GROUP_ID", h.gid, 0)
              ELSE c
    IN  IF h.SSH_AUTH_SOCK # NULL
        THEN odk_add_binding(odk_add_env_var(c1, "SSH_AUTH_SOCK", SINGULARITY_SSH_SOCKET, 0),
                             h.SSH_AUTH_SOCK, SINGULARITY_SSH_SOCKET, 0)
        ELSE [cfg |-> c1, ret |-> 0]

\* The string buffer of the --env argument of backend-singularity.c.
RECURSIVE singularity_env_arg(_, _)
singularity_env_arg(vs, j) ==
    IF j > Len(vs) THEN ""
    ELSE (IF vs[j].value # NULL
          THEN (IF j > 1 THEN "," ELSE "") \o vs[j].name \o "=" \o vs[j].value
          ELSE "")
         \o singularity_env_arg(vs, j + 1)

\* The string buffer of the --bind argument of backend-singularity.c.
RECURSIVE singularity_bind_arg(_, _)
singularity_bind_arg(bs, j) ==
    IF j > Len(bs) THEN ""
    ELSE (IF j > 1 THEN "," ELSE "")
         \o bs[j].host_directory \o ":" \o bs[j].container_directory
         \o singularity_bind_arg(bs, j + 1)

\* run of backend-singularity.c
singularity_run(c, command, child) ==
    LET image_qualifier == IF StrChr(c.image_name, "/") # 0 THEN "" ELSE "obolibrary/" IN
    [ n    |-> 7 + (IF Len(c.bindings) > 0 THEN 2 ELSE 0)
                 + (IF Len(c.env_vars) > 0 THEN 2 ELSE 0)
                 + (IF HasFlag(c.flags, ODK_FLAG_TIMEDEBUG) THEN 3 ELSE 0)
                 + (IF HasFlag(c.flags, ODK_FLAG_SEEDMODE) THEN 2 ELSE 0)
                 + Len(command),
      argv |-> << "singularity", "exec", "--cleanenv" >>
               \o (IF Len(c.env_vars) > 0
                   THEN << "--env", singularity_env_arg(c.env_vars, 1) >> ELSE << >>)
               \o (IF Len(c.bindings) > 0
                   THEN << "--bind", singularity_bind_arg(c.bindings, 1) >> ELSE << >>)
               \o << "-W", c.work_directory,
                     "docker://" \o image_qualifier \o c.image_name \o ":" \o c.image_tag >>
               \o (IF HasFlag(c.flags, ODK_FLAG_TIMEDEBUG) THEN TIME_TOKENS ELSE << >>)
               \o (IF HasFlag(c.flags, ODK_FLAG_SEEDMODE)
                   THEN << "/tools/odk.py", "seed" >> ELSE << >>)
               \o command
               \o << NULL >>,
      rc   |-> spawn_process(child),
      environ |-> << >> ]

\* The loop of backend-native.c over env_vars: setenv(name, value, 1) for an
\* entry with a value, unsetenv(name) for one without.
native_environ(vs) ==
    [j \in 1..Len(vs) |->
        IF vs[j].value # NULL THEN [call |-> "setenv", name |-> vs[j].name, value |-> vs[j].value]
        ELSE [call |-> "unsetenv", name |-> vs[j].name, value |-> NULL]]

\* run of backend-native.c.  It reads cfg->git_user and cfg->git_email, which
\* odk_run_config_t does not have: git_user and git_email are what it finds.
\* Without the debug and seed flags the command is spawned as it is (n is then
\* the size of the command's own vector).
native_run(c, command, child, git_user, git_email) ==
    LET debug == HasFlag(c.flags, ODK_FLAG_TIMEDEBUG)
        seed  == HasFlag(c.flags, ODK_FLAG_SEEDMODE)
    IN  [ n    |-> IF debug \/ seed
                   THEN (IF debug THEN 3 ELSE 0) + (IF seed THEN 6 ELSE 0) + Len(command)
                   ELSE Len(command) + 1,
          argv |-> (IF debug THEN TIME_TOKENS ELSE << >>)
                   \o (IF seed
                       THEN << "odk.py", "seed", "--gitname", git_user, "--gitemail", git_email >>
                       ELSE << >>)
                   \o command
                   \o << NULL >>,
          rc   |-> spawn_process(child),
          environ |-> native_environ(c.env_vars) ]

(***************************************************************************)
(* SpecApi, continued: seed mode, and the run of the other two backends.   *)
(***************************************************************************)

\* cfg.flags |= ODK_FLAG_SEEDMODE, as main() does for the seed command.
ApiSetSeed ==
    /\ pc = "api"
    /\ last.count < MaxCalls
    /\ ~HasFlag(cfg.flags, ODK_FLAG_SEEDMODE)
    /\ cfg' = [cfg EXCEPT !.flags = SetFlag(@, ODK_FLAG_SEEDMODE)]
    /\ last' = [ op |-> "set_seed", count |-> last.count + 1, before |-> cfg ]
    /\ UNCHANGED <<pc, cli, host, backend, ret, status, calls>>

ApiRunSingularity ==
    /\ pc = "api"
    /\ \E command \in ApiCommands, child \in ApiChildren :
          LET r == singularity_run(cfg, command, child) IN
          /\ calls' = [calls EXCEPT !.run = 1, !.run_ret = r.rc, !.child = child,
                                    !.n = r.n, !.argv = r.argv, !.at_run = cfg]
          /\ cli' = [cli EXCEPT !.command = command]
          /\ backend' = [kind |-> "singularity", prepare |-> TRUE, total_memory |-> 0]
    /\ pc' = "api_done"
    /\ UNCHANGED <<cfg, host, ret, status, last>>

ApiRunNative ==
    /\ pc = "api"
    /\ \E command \in ApiCommands, child \in ApiChildren,
          git_user \in (IF HasFlag(cfg.flags, ODK_FLAG_SEEDMODE) THEN { NULL, "?" } ELSE { NULL }) :
          LET r == native_run(cfg, command, child, git_user, git_user) IN
          /\ calls' = [calls EXCEPT !.run = 1, !.run_ret = r.rc, !.child = child,
                                    !.n = r.n, !.argv = r.argv, !.environ = r.environ,
                                    !.at_run = cfg]
          /\ cli' = [cli EXCEPT !.command = command]
          /\ backend' = [kind |-> "native", prepare |-> FALSE, total_memory |-> 0]
    /\ pc' = "api_done"
    /\ UNCHANGED <<cfg, host, ret, status, last>>

NextApi ==
    \/ ApiAddEnvVar
    \/ ApiAddBinding
    \/ ApiSetDebug
    \/ ApiSetSeed
    \/ ApiRunDocker
    \/ ApiRunSingularity
    \/ ApiRunNative

SpecApi == InitApi /\ [][NextApi]_vars

(***************************************************************************)
(* runner.c: odk_free_config; odkrun.c: load_conf_from_env.                *)
(***************************************************************************)
odk_free_config(c) ==
    [c EXCEPT !.bindings = << >>, !.env_vars = << >>, !.java_opts = << >>]

\* load_conf_from_env(cfg): odkrun.c calls it and does not define it.  The
\* settings that come from the environment (proxy, git identity, GitHub token,
\* OAK cache location) are all read by the set_* functions and by oaklib.c, so
\* that it is left nothing to add to the configuration.
load_conf_from_env(c) == c

(***************************************************************************)
(* Spec: one run of main().  The host (environment, files, memory, what    *)
(* the child process does) is chosen where main() reads it; host records   *)
(* the choices, cli what the command line gave, calls what was handed to   *)
(* the backend, last the latest step with the configuration before it.     *)
(*                                                                         *)
(* The runs are grouped in families, each varying the inputs of one part   *)
(* of main() and leaving the others at one value.                          *)
(***************************************************************************)
MaxOpts == 2

Families == { "image", "env", "java", "mem", "run" }

Running    == [end |-> "no", code |-> 0]
Exited(k)  == [end |-> "exit", code |-> k]
Returned(k) == [end |-> "return", code |-> k]
Aborted    == [end |-> "abort", code |-> 0]

File(lines) == [exists |-> TRUE, opens |-> TRUE, lines |-> lines, fails_after |-> -1]

DefaultHost(family, home) ==
    [ family |-> family, HOME |-> home, XDG_CONFIG_HOME |-> NULL, GH_TOKEN |-> NULL,
      files |-> {}, token_file |-> NULL,
      GIT_AUTHOR_NAME |-> NULL, GIT_AUTHOR_EMAIL |-> NULL, git_name |-> NULL,
      git_email |-> NULL, odk_yaml |-> FALSE,
      http_proxy |-> NULL, https_proxy |-> NULL, no_proxy |-> NULL,
      SSH_AUTH_SOCK |-> NULL, uid |-> "1000", gid |-> "1000",
      OAKLIB_HOME |-> NULL, PYSTOW_HOME |-> NULL, PYSTOW_USE_APPDIRS |-> NULL,
      XDG_DATA_DIR |-> NULL, XDG_DATA_HOME |-> NULL, PYSTOW_NAME |-> NULL,
      docker_info |-> 0, phys_mem |-> 0, conf |-> NoFile ]

With(h, part) == [k \in DOMAIN h |-> IF k \in DOMAIN part THEN part[k] ELSE h[k]]

Homes(family) == IF family \in {"env", "run"} THEN { "/home/me", NULL } ELSE { "/home/me" }

ConfFiles(family) ==
    CASE family = "image" ->
           { NoFile,
             File(<< "ODK_IMAGE=foo/bar" >>),
             File(<< "ODK_TAG='v1'" >>),
             File(<< "# local settings", "ODK_IMAGE=foo/bar", "ODK_TAG=v1" >>),
             File(<< "ODK_DEBUG=yes", "ODK_USER_ID=0" >>),
             File(<< "ODK_USER_ID=5", "NOVALUE", "ODK_TAG=v1" >>),
             File(<< "BOGUS=1" >>),
             File(<< "BOGUS=1", "NOVALUE", "ODK_IMAGE=foo/bar", "ODK_TAG=v2" >>),
             File(<< "ODK_IMAGE=foo/bar", "ODK_TAG=v2" >>),
             File(<< "ODK_USER_ID=5", "ODK_DEBUG=yes", "ODK_USER_ID=0",
                     "ODK_JAVA_OPTS=-Xss4m -ea" >>),
             File(<< "ODK_IMAGE=\"" >>),
             File(<< >>),
             [exists |-> TRUE, opens |-> FALSE, lines |-> << >>, fails_after |-> -1],
             [exists |-> TRUE, opens |-> TRUE, lines |-> << "ODK_TAG=v1", "ODK_IMAGE=foo/bar" >>,
              fails_after |-> 1] }
      [] family = "java" ->
           { NoFile,
             File(<< "OWLAPI_CONNECTION_TIMEOUT=9" >>),
             File(<< "OWLAPI_CONNECTION_TIMEOUT=soon", "OWLAPI_NO_SUCH_OPTION=1" >>),
             File(<< "ODK_JAVA_OPTS=-Xss4m -Xmx2G" >>) }
      [] family = "mem" ->
           { NoFile,
             File(<< "ODK_JAVA_OPTS=-Xmx2G" >>),
             File(<< "ODK_JAVA_OPTS=-Xss4m" >>) }
      [] family = "run" ->
           { NoFile,
             File(<< "ODK_BINDS=/host:/data,/forbidden/dir:/x,~/shared:/shared:ro" >>) }
      [] OTHER -> { NoFile }

Commands(family) ==
    CASE family = "run" -> { << >>, << "robot", "--version" >>,
                             << "seed", "-C", "config.yaml" >> }
      [] family = "env" -> { << "make" >>, << "seed" >> }
      [] OTHER          -> { << "make" >> }

MemoryValues(family) ==
    IF family = "mem" THEN { -1, 0, 1024, 1137, 1138, 8192, 10240, 51200 }
    ELSE IF family = "run" THEN { -1, 8192 }
    ELSE { 8192 }

JavaMemArgs == { "4g", "512m", "50%", "5%", "58%", "0g", "lots", "4k", "12" }

Children(family) ==
    IF family = "run"
    THEN { c \in ChildOutcomes({0, 2}) : c.kind \in {"exited", "signaled"} }
    ELSE { [kind |-> "exited", code |-> 0] }

Init ==
    /\ pc = "getopt"
    /\ cfg = odk_init_config
    /\ cli = NoCli
    /\ \E family \in Families : \E home \in Homes(family) : host = DefaultHost(family, home)
    /\ backend = NoBackend
    /\ ret = 0
    /\ status = Running
    /\ calls = NoCalls
    /\ last = NoLast

(***************************************************************************)
(* The getopt_long loop of main(): one action for each case of the switch. *)
(***************************************************************************)
MoreOptions == pc = "getopt" /\ cli.nopts < MaxOpts

Option(c, k) ==
    /\ cfg' = c
    /\ cli' = [k EXCEPT !.nopts = @ + 1]
    /\ last' = [op |-> "getopt", count |-> 0]
    /\ UNCHANGED <<pc, host, backend, ret, status, calls>>

Terminate(c, st) ==
    /\ cfg' = c
    /\ status' = st
    /\ pc' = IF st.end = "abort" THEN "aborted" ELSE "exited"

\* case 'h': usage(EXIT_SUCCESS)
OptHelp ==
    /\ MoreOptions /\ host.family = "run"
    /\ Terminate(cfg, Exited(EXIT_SUCCESS))
    /\ last' = [op |-> "usage", count |-> 0]
    /\ UNCHANGED <<cli, host, backend, ret, calls>>

\* case '?': usage(EXIT_FAILURE)
OptUnknown ==
    /\ MoreOptions /\ host.family = "run"
    /\ Terminate(cfg, Exited(EXIT_FAILURE))
    /\ last' = [op |-> "usage", count |-> 0]
    /\ UNCHANGED <<cli, host, backend, ret, calls>>

\* case 'v': info()
OptVersion ==
    /\ MoreOptions /\ host.family = "run"
    /\ Terminate(cfg, Exited(EXIT_SUCCESS))
    /\ last' = [op |-> "info", count |-> 0]
    /\ UNCHANGED <<cli, host, backend, ret, calls>>

\* case 'd'
OptDebug ==
    /\ MoreOptions /\ host.family \in {"image", "run"}
    /\ Option(odk_add_env_var([cfg EXCEPT !.flags = SetFlag(@, ODK_FLAG_TIMEDEBUG)],
                              "ODK_DEBUG", "yes", 0),
              cli)

\* case 'i'
OptImage ==
    /\ MoreOptions /\ host.family = "image"
    /\ \E optarg \in { "myorg/odk", "odkfull" } :
          Option(odk_set_image_name(cfg, optarg, 0), [cli EXCEPT !.image_name = optarg])

\* case 't'
OptTag ==
    /\ MoreOptions /\ host.family = "image"
    /\ \E optarg \in { "v1.5" } :
          Option(odk_set_image_tag(cfg, optarg, 0), [cli EXCEPT !.image_tag = optarg])

\* case 'l'
OptLite ==
    /\ MoreOptions /\ host.family = "image"
    /\ Option(odk_set_image_name(cfg, "obolibrary/odklite", 0),
              [cli EXCEPT !.image_name = "obolibrary/odklite"])

\* case 's'
OptSingularity ==
    /\ MoreOptions /\ host.family \in {"image", "mem", "run"}
    /\ Option(cfg, [cli EXCEPT !.backend = "singularity"])

\* case 'n'
OptNative ==
    /\ MoreOptions /\ host.family \in {"mem", "run", "env"}
    /\ Option(cfg, [cli EXCEPT !.backend = "native"])

\* case 'k'
OptOakCache ==
    /\ MoreOptions /\ host.family = "run"
    /\ \E optarg \in { "repo", "/host", "USER" } :
          Option(odk_set_oak_cache_directory(cfg, optarg, 0), cli)

\* case 'K'
OptOakUserCache ==
    /\ MoreOptions /\ host.family = "run"
    /\ Option(odk_set_oak_cache_directory(cfg, "user", 0), cli)

\* case 'm'
OptJavaMem ==
    /\ MoreOptions /\ host.family = "mem"
    /\ \E optarg \in JavaMemArgs : Option(cfg, [cli EXCEPT !.java_mem = optarg])

\* case 256
OptRoot ==
    /\ MoreOptions /\ host.family \in {"image", "run"}
    /\ Option([cfg EXCEPT !.flags = SetFlag(@, ODK_FLAG_RUNASROOT)], cli)

\* case 'e'
OptEnv ==
    /\ MoreOptions /\ host.family = "env"
    /\ \E optarg \in { "GH_TOKEN=cli-token", "http_proxy=http://cli.example:8080",
                       "GIT_AUTHOR_NAME=Cli Name", "ODK_USER_ID=0", "FOO", "FOO=",
                       "ODK_JAVA_OPTS=-Xss1m" } :
          LET eq == split_key_value_pair(optarg) IN
          IF eq = 0
          THEN /\ Terminate(cfg, Exited(EXIT_FAILURE))
               /\ last' = [op |-> "split_key_value_pair", count |-> 0]
               /\ UNCHANGED <<cli, host, backend, ret, calls>>
          ELSE LET name == SubSeq(optarg, 1, eq - 1)
                   opt_value == From(optarg, eq + 1)
               IN  Option(odk_add_env_var(cfg, name, opt_value, 0),
                          [cli EXCEPT !.env = Append(@, [name |-> name, value |-> opt_value])])

\* case 258
OptJavaProperty ==
    /\ MoreOptions /\ host.family = "java"
    /\ \E optarg \in { "http.proxyHost=cli.example", "http.nonProxyHosts=cli.example",
                       OWLAPI_OPTION_NAMESPACE \o ".CONNECTION_TIMEOUT=7", "user.language" } :
          LET eq == split_key_value_pair(optarg) IN
          IF eq = 0
          THEN /\ Terminate(cfg, Exited(EXIT_FAILURE))
               /\ last' = [op |-> "split_key_value_pair", count |-> 0]
               /\ UNCHANGED <<cli, host, backend, ret, calls>>
          ELSE LET name == SubSeq(optarg, 1, eq - 1)
                   opt_value == From(optarg, eq + 1)
               IN  Option(odk_add_java_property(cfg, name, opt_value, 0),
                          [cli EXCEPT !.props = Append(@, [name |-> name, value |-> opt_value])])

\* case 257
OptOwlapiOption ==
    /\ MoreOptions /\ host.family = "java"
    /\ \E optarg \in { "connection-timeout=5", "load-annotations=maybe", "bogus=x", "help" } :
          LET r == handle_owlapi_option(cfg, optarg)
              o == get_owlapi_java_property(optarg)
          IN  IF r.end # "no"
              THEN /\ Terminate(r.cfg, Exited(r.code))
                   /\ cli' = [cli EXCEPT !.owlapi = Append(@, optarg)]
                   /\ last' = [op |-> "handle_owlapi_option", count |-> 0,
                               error |-> IF optarg = "help" THEN NULL ELSE o.error]
                   /\ UNCHANGED <<host, backend, ret, calls>>
              ELSE Option(r.cfg,
                          [cli EXCEPT !.owlapi = Append(@, optarg),
                                      !.props = Append(@, [name |-> o.property,
                                                           value |-> o.value])])

\* getopt_long returns -1: argv[optind] and what follows is the command.
GetoptEnd ==
    /\ pc = "getopt"
    /\ \E command \in Commands(host.family) : cli' = [cli EXCEPT !.command = command]
    /\ pc' = "load_run_conf"
    /\ last' = [op |-> "getopt_end", count |-> 0]
    /\ UNCHANGED <<cfg, host, backend, ret, status, calls>>

(***************************************************************************)
(* The steps of main() after the options.                                  *)
(***************************************************************************)
Step(from, to, op) ==
    /\ pc = from
    /\ pc' = to
    /\ last' = [op |-> op, count |-> 0]

\* The outcome of a step that may end the launcher: r is what Goes, Exits or
\* Aborts built.
Outcome(r, to) ==
    /\ cfg' = r.cfg
    /\ IF r.end = "no" THEN pc' = to /\ status' = status
       ELSE IF r.end = "exit" THEN pc' = "exited" /\ status' = Exited(r.code)
       ELSE pc' = "aborted" /\ status' = Aborted

\* if ( load_run_conf(&cfg) == -1 ) err(...); load_conf_from_env(&cfg);
LoadRunConf ==
    /\ pc = "load_run_conf"
    /\ \E file \in ConfFiles(host.family), noflags \in { 0, ODK_NO_OVERWRITE } :
          LET r == load_run_conf(cfg, file, noflags, host.HOME) IN
          /\ host' = With(host, [conf |-> file])
          /\ last' = [op |-> "load_run_conf", count |-> 0, before |-> cfg, ret |-> r.ret]
          /\ IF r.ret = -1
             THEN Outcome(Exits(r.cfg, EXIT_FAILURE), "seed")
             ELSE Outcome(Goes(load_conf_from_env(r.cfg)), "seed")
    /\ UNCHANGED <<cli, backend, ret, calls>>

\* if ( optind < argc && strcmp("seed", argv[optind]) == 0 ) ...
SeedMode ==
    /\ Step("seed", "backend_init", "seed")
    /\ IF cli.command # << >> /\ Head(cli.command) = "seed"
       THEN \E name \in (IF host.family = "env" THEN { NULL, "Env Name" } ELSE { NULL }),
               git_name \in { NULL, "Git Name" },
               git_email \in (IF host.family = "env" THEN { "git@example.org" } ELSE { NULL }) :
               LET h == With(host, [GIT_AUTHOR_NAME |-> name, git_name |-> git_name,
                                    git_email |-> git_email])
               IN  /\ host' = h
                   /\ cli' = [cli EXCEPT !.command = Tail(@), !.seed = TRUE]
                   /\ cfg' = set_git_user([cfg EXCEPT !.flags = SetFlag(@, ODK_FLAG_SEEDMODE)], h)
       ELSE UNCHANGED <<host, cli, cfg>>
    /\ UNCHANGED <<backend, ret, status, calls>>

\* if ( backend_init(&backend) == -1 ) err(...)
BackendInit ==
    /\ pc = "backend_init"
    /\ \E mem \in MemoryValues(host.family) :
          LET h == IF cli.backend = "docker" THEN With(host, [docker_info |-> mem])
                   ELSE With(host, [phys_mem |-> IF mem = -1 THEN 0 ELSE mem])
              r == CASE cli.backend = "docker"      -> odk_backend_docker_init(h)
                     [] cli.backend = "singularity" -> odk_backend_singularity_init(h)
                     [] cli.backend = "native"      -> odk_backend_native_init(h)
          IN  /\ host' = h
              /\ backend' = r.backend
              /\ Outcome(IF r.ret = -1 THEN Exits(cfg, EXIT_FAILURE) ELSE Goes(cfg),
                         "set_max_java_mem")
    /\ last' = [op |-> "backend_init", count |-> 0]
    /\ UNCHANGED <<cli, ret, calls>>

\* set_max_java_mem(&cfg, backend.info.total_memory, java_mem)
SetMaxJavaMem ==
    /\ pc = "set_max_java_mem"
    /\ Outcome(set_max_java_mem(cfg, backend.total_memory, cli.java_mem), "set_work_directory")
    /\ last' = [op |-> "set_max_java_mem", count |-> 0, before |-> cfg]
    /\ UNCHANGED <<cli, host, backend, ret, calls>>

\* set_work_directory(&cfg)
SetWorkDirectory ==
    /\ pc = "set_work_directory"
    /\ \E odk_yaml \in (IF host.family = "run" THEN BOOLEAN ELSE { FALSE }) :
          LET h == With(host, [odk_yaml |-> odk_yaml]) IN
          /\ host' = h
          /\ Outcome(set_work_directory(cfg, h), "set_github_token")
    /\ last' = [op |-> "set_work_directory", count |-> 0]
    /\ UNCHANGED <<cli, backend, ret, calls>>

TokenHosts(h) ==
    IF h.family # "env" THEN { h }
    ELSE { With(h, [GH_TOKEN |-> "env-token"]),
           With(h, [files |-> { "../../.github/token.txt" }, token_file |-> "repo-token\n"]),
           With(h, [files |-> { "/home/me/.config/" \o GH_TOKEN_FILE }, token_file |-> "sys-token"]),
           With(h, [files |-> { "/home/me/.config/" \o GH_TOKEN_FILE }, token_file |-> NULL]),
           With(h, [XDG_CONFIG_HOME |-> "/home/me/.xdg",
                    files |-> { "/home/me/.xdg/" \o GH_TOKEN_FILE }, token_file |-> "xdg-token\n"]),
           h }

\* set_github_token(&cfg)
SetGithubToken ==
    /\ pc = "set_github_token"
    /\ \E h \in TokenHosts(host), asserts \in BOOLEAN :
          /\ host' = h
          /\ Outcome(set_github_token(cfg, h, asserts), "set_http_proxy")
          /\ last' = [op |-> "set_github_token", count |-> 0,
                      paths |-> set_github_token_paths(h)]
    /\ UNCHANGED <<cli, backend, ret, calls>>

ProxyHosts(h) ==
    CASE h.family = "env" ->
           { h, With(h, [http_proxy |-> "http://proxy.example:3128"]),
             With(h, [http_proxy |-> "proxy.example", no_proxy |-> "localhost,example.org"]) }
      [] h.family = "java" ->
           { h, With(h, [http_proxy |-> "http://proxy.example:3128",
                         no_proxy |-> "localhost,example.org"]),
             With(h, [https_proxy |-> "https://secure.example:3129"]),
             With(h, [https_proxy |-> "secure.example"]) }
      [] OTHER -> { h }

\* set_http_proxy(&cfg)
SetHttpProxy ==
    /\ Step("set_http_proxy", "make_java_args", "set_http_proxy")
    /\ \E h \in ProxyHosts(host), uninit \in { NULL, "?" } :
          /\ host' = h
          /\ cfg' = set_http_proxy(cfg, h, uninit)
    /\ UNCHANGED <<cli, backend, ret, status, calls>>

\* if ( cfg.n_java_opts ) mr_register(NULL, odk_make_java_args(&cfg, 1), 1);
\* The buffer is one byte short of what is written to it: the outcome of the
\* write past its end is either nothing (heap records that it happened) or the
\* end of the process.
MakeJavaArgs ==
    /\ pc = "make_java_args"
    /\ IF cfg.java_opts # << >>
       THEN LET r == odk_make_java_args(cfg, TRUE) IN
            /\ last' = [op |-> "odk_make_java_args", count |-> 1, before |-> cfg,
                        buffer |-> r.buffer, needed |-> r.needed, bytes |-> r.bytes]
            /\ IF r.bytes > r.needed
               THEN /\ calls' = [calls EXCEPT !.heap = "overrun"]
                    /\ \/ Outcome(Goes(r.cfg), "share_oaklib_cache")
                       \/ Outcome(Aborts(r.cfg), "share_oaklib_cache")
               ELSE /\ calls' = calls
                    /\ Outcome(Goes(r.cfg), "share_oaklib_cache")
       ELSE /\ last' = [op |-> "odk_make_java_args", count |-> 0]
            /\ calls' = calls
            /\ Outcome(Goes(cfg), "share_oaklib_cache")
    /\ UNCHANGED <<cli, host, backend, ret>>

OakHosts(h) ==
    IF h.family # "run" THEN { h }
    ELSE { h, With(h, [OAKLIB_HOME |-> "/host"]), With(h, [PYSTOW_HOME |-> "/link"]),
           With(h, [PYSTOW_USE_APPDIRS |-> "True", PYSTOW_NAME |-> "stow"]),
           With(h, [PYSTOW_USE_APPDIRS |-> "true", XDG_DATA_HOME |-> "/host"]),
           With(h, [PYSTOW_USE_APPDIRS |-> "true", XDG_DATA_DIR |-> "/link"]),
           With(h, [PYSTOW_NAME |-> "stow"]) }

\* if ( cfg.oak_cache_directory && share_oaklib_cache(...) == -1 ) err(...)
ShareOakCache ==
    /\ pc = "share_oaklib_cache"
    /\ IF cfg.oak_cache_directory # NULL
       THEN \E h \in OakHosts(host), junk \in { "", "?" } :
               LET r == share_oaklib_cache(cfg, cfg.oak_cache_directory, h, junk)
                   d == get_oaklib_cache_directory(CACHE_PATH_MAX, h, junk)
               IN
               /\ host' = h
               /\ last' = [op |-> "share_oaklib_cache", count |-> 1, before |-> cfg,
                           dir |-> cfg.oak_cache_directory, ret |-> r.ret,
                           cache_ret |-> d.ret, cache_dir |-> d.buffer]
               /\ Outcome(IF r.ret = -1 THEN Exits(r.cfg, EXIT_FAILURE) ELSE Goes(r.cfg),
                          "prepare")
       ELSE /\ host' = host
            /\ last' = [op |-> "share_oaklib_cache", count |-> 0]
            /\ Outcome(Goes(cfg), "prepare")
    /\ UNCHANGED <<cli, backend, ret, calls>>

SshSockets(family) ==
    CASE family = "run"   -> { NULL, "/forbidden/dir" }
      [] family = "image" -> { NULL, "/tmp/ssh-agent.sock" }
      [] OTHER            -> { NULL }

\* if ( backend.prepare ) ret = backend.prepare(&backend, &cfg): backend-docker.c
PrepareDocker ==
    /\ Step("prepare", "run", "prepare")
    /\ backend.kind = "docker"
    /\ \E sock \in SshSockets(host.family), noflags \in { 0, ODK_NO_OVERWRITE } :
          LET h == With(host, [SSH_AUTH_SOCK |-> sock])
              r == docker_prepare(cfg, h, noflags)
          IN  /\ host' = h
              /\ cfg' = r.cfg
              /\ ret' = r.ret
              /\ calls' = [calls EXCEPT !.prepare = @ + 1, !.prepare_ret = r.ret,
                                        !.at_prepare = cfg]
    /\ UNCHANGED <<cli, backend, status>>

\* if ( backend.prepare ) ret = backend.prepare(&backend, &cfg): backend-singularity.c
PrepareSingularity ==
    /\ Step("prepare", "run", "prepare")
    /\ backend.kind = "singularity"
    /\ \E sock \in SshSockets(host.family) :
          LET h == With(host, [SSH_AUTH_SOCK |-> sock])
              r == singularity_prepare(cfg, h)
          IN  /\ host' = h
              /\ cfg' = r.cfg
              /\ ret' = r.ret
              /\ calls' = [calls EXCEPT !.prepare = @ + 1, !.prepare_ret = r.ret,
                                        !.at_prepare = cfg]
    /\ UNCHANGED <<cli, backend, status>>

\* backend.prepare is NULL (backend-native.c): ret stays 0
NoPrepare ==
    /\ Step("prepare", "run", "no_prepare")
    /\ ~backend.prepare
    /\ UNCHANGED <<cfg, cli, host, backend, ret, status, calls>>

Ran(r, child) ==
    [calls EXCEPT !.run = @ + 1, !.run_ret = r.rc, !.child = child, !.n = r.n,
                  !.argv = r.argv, !.environ = r.environ, !.at_run = cfg,
                  !.heap = IF Len(r.argv) > r.n THEN "overrun" ELSE @]

\* if ( ret == 0 ) ret = backend.run(&backend, &cfg, &argv[optind]): backend-docker.c
RunDocker ==
    /\ Step("run", "close", "run")
    /\ ret = 0 /\ backend.kind = "docker"
    /\ \E child \in Children(host.family) :
          LET r == docker_run(cfg, cli.command, child) IN
          /\ ret' = r.rc
          /\ calls' = Ran(r, child)
    /\ UNCHANGED <<cfg, cli, host, backend, status>>

\* ... backend-singularity.c
RunSingularity ==
    /\ Step("run", "close", "run")
    /\ ret = 0 /\ backend.kind = "singularity"
    /\ \E child \in Children(host.family) :
          LET r == singularity_run(cfg, cli.command, child) IN
          /\ ret' = r.rc
          /\ calls' = Ran(r, child)
    /\ UNCHANGED <<cfg, cli, host, backend, status>>

\* ... backend-native.c.  With the debug or seed flag the vector it fills is one
\* slot longer than the one it allocates.
RunNative ==
    /\ Step("run", "close", "run")
    /\ ret = 0 /\ backend.kind = "native"
    /\ \E child \in Children(host.family),
          git_user \in (IF HasFlag(cfg.flags, ODK_FLAG_SEEDMODE) THEN { NULL, "?" } ELSE { NULL }) :
          LET r == native_run(cfg, cli.command, child, git_user, git_user) IN
          /\ ret' = r.rc
          /\ calls' = Ran(r, child)
    /\ UNCHANGED <<cfg, cli, host, backend, status>>

\* ret != 0 after prepare: run is not called
NoRun ==
    /\ Step("run", "close", "no_run")
    /\ ret # 0
    /\ UNCHANGED <<cfg, cli, host, backend, ret, status, calls>>

\* odk_free_config(&cfg); backend.close(&backend); return ret;
\* free() on a heap that was written out of bounds may end the process instead.
Close ==
    /\ pc = "close"
    /\ last' = [op |-> "close", count |-> 0]
    /\ \/ /\ cfg' = odk_free_config(cfg)
          /\ calls' = [calls EXCEPT !.close = @ + 1]
          /\ status' = Returned(ret)
          /\ pc' = "returned"
       \/ /\ calls.heap = "overrun"
          /\ calls' = calls
          /\ Outcome(Aborts(cfg), "returned")
    /\ UNCHANGED <<cli, host, backend, ret>>

Next ==
    \/ OptHelp \/ OptUnknown \/ OptVersion \/ OptDebug \/ OptImage \/ OptTag \/ OptLite
    \/ OptSingularity \/ OptNative \/ OptOakCache \/ OptOakUserCache \/ OptJavaMem
    \/ OptRoot \/ OptEnv \/ OptJavaProperty \/ OptOwlapiOption \/ GetoptEnd
    \/ LoadRunConf \/ SeedMode \/ BackendInit \/ SetMaxJavaMem \/ SetWorkDirectory
    \/ SetGithubToken \/ SetHttpProxy \/ MakeJavaArgs \/ ShareOakCache
    \/ PrepareDocker \/ PrepareSingularity \/ NoPrepare
    \/ RunDocker \/ RunSingularity \/ RunNative \/ NoRun
    \/ Close

Spec == Init /\ [][Next]_vars

(***************************************************************************)
(* Properties.                                                             *)
(***************************************************************************)

\* The entries of a list of variables that are named name.
EntriesNamed(vs, name) == { j \in 1..Len(vs) : vs[j].name = name }

\* C6: a second odk_add_env_var for a name that already has an entry leaves
\* exactly one entry for that name, at the same position of a list of the same
\* length; the entry holds the second value when the second call's flags are 0,
\* and keeps the first value when they are ODK_NO_OVERWRITE.
C6_ReAddEnvVar ==
    (last.op = "odk_add_env_var" /\ EntriesNamed(last.before.env_vars, last.name) # {})
    => LET old == last.before.env_vars
           new == cfg.env_vars
           i   == CHOOSE j \in EntriesNamed(old, last.name) : TRUE
       IN  /\ Len(new) = Len(old)
           /\ EntriesNamed(new, last.name) = {i}
           /\ EntriesNamed(old, last.name) = {i}
           /\ new[i].value = (IF last.flags = 0 THEN last.value ELSE old[i].value)

C6_Witness ==
    /\ last.op = "odk_add_env_var"
    /\ last.flags = ODK_NO_OVERWRITE
    /\ Len(last.before.env_vars) = 2
    /\ last.before.env_vars[1] = [name |-> "FOO", value |-> "bar"]
    /\ last.name = "FOO"
    /\ last.value = "baz"
    /\ cfg.env_vars[1].value = "bar"

\* C7: odk_add_binding returns 0 and has the canonical path of src among the host
\* directories when src resolves; returns 0 and has src itself there when src
\* does not exist; and returns -1, leaving the configuration as it was, when the
\* resolution fails for another reason.  No other host directory is touched.
C7_AddBindingCanonical ==
    (last.op = "odk_add_binding")
    => LET r   == realpath(last.src)
           old == last.before.bindings
           new == cfg.bindings
           key == IF r.path # NULL THEN r.path ELSE last.src
       IN  IF r.path = NULL /\ r.errno # "ENOENT"
           THEN last.ret = -1 /\ cfg = last.before
           ELSE /\ last.ret = 0
                /\ \E j \in 1..Len(new) : new[j].host_directory = key
                /\ Len(new) \in { Len(old), Len(old) + 1 }
                /\ \A j \in 1..Len(old) : new[j].host_directory = old[j].host_directory
                /\ Len(new) = Len(old) + 1 => new[Len(new)].host_directory = key

C7_Witness ==
    /\ last.op = "odk_add_binding"
    /\ last.src = "/link"
    /\ last.ret = 0
    /\ Len(last.before.bindings) = 1
    /\ last.before.bindings[1].host_directory = "/missing"
    /\ Len(cfg.bindings) = 2
    /\ cfg.bindings[2].host_directory = "/host"

\* The vector the Docker backend is to build for a configuration and a command.
C2_Valued(vs) == SelectSeq(vs, LAMBDA v : v.value # NULL)

C2_Binds(bs) ==
    [k \in 1..(2 * Len(bs)) |->
        IF k % 2 = 1 THEN "-v"
        ELSE bs[k \div 2].host_directory \o ":" \o bs[k \div 2].container_directory]

C2_Envs(vs) ==
    [k \in 1..(2 * Len(vs)) |->
        IF k % 2 = 1 THEN "-e" ELSE vs[k \div 2].name \o "=" \o vs[k \div 2].value]

C2_Expected(c, command) ==
    << "docker", "run", "--rm", "-ti", "-w", c.work_directory >>
    \o C2_Binds(c.bindings)
    \o C2_Envs(C2_Valued(c.env_vars))
    \o << c.image_name \o ":" \o c.image_tag >>
    \o (IF HasFlag(c.flags, ODK_FLAG_TIMEDEBUG)
        THEN << "/usr/bin/time", "-f",
                "### DEBUG STATS ###\nElapsed time: %E\nPeak memory: %M kb" >>
        ELSE << >>)
    \o command
    \o << NULL >>

\* C2: the vector the Docker backend's run builds is docker run --rm -ti -w
\* work_directory, then -v host:container per binding, then -e NAME=VALUE per env
\* var that has a value, then image_name:image_tag, then the three timing tokens
\* if the debug flag is set, then the command, then NULL.
C2_DockerVector ==
    (backend.kind = "docker" /\ calls.run = 1)
    => calls.argv = C2_Expected(calls.at_run, cli.command)

C2_Witness ==
    /\ pc = "api_done"
    /\ backend.kind = "docker"
    /\ calls.run = 1
    /\ Len(cfg.bindings) = 1
    /\ Len(cfg.env_vars) = 2
    /\ cfg.env_vars[1].value = NULL
    /\ cfg.env_vars[2] = [name |-> "FOO", value |-> "bar"]
    /\ cli.command = << "robot", "--version" >>
    /\ calls.argv = << "docker", "run", "--rm", "-ti", "-w", "/work",
                       "-v", "/host:/container", "-e", "FOO=bar",
                       "obolibrary/odkfull:latest", "robot", "--version", NULL >>


\* The value of the entry of a list of variables that is named name.
ValueOf(vs, name) == vs[FirstIndex(VarNames(vs), name)].value

\* The value the command line gave last for name, in a list of its NAME=VALUE
\* arguments.
CliValue(args, name) ==
    LET at == { i \in 1..Len(args) : args[i].name = name } IN
    args[CHOOSE i \in at : \A j \in at : j <= i].value

CliNames(args) == { args[i].name : i \in 1..Len(args) }

\* run.sh.conf has a line that sets key.
ConfSets(file, key) ==
    file.exists /\ \E i \in 1..Len(file.lines) : HasPrefix(file.lines[i], key \o "=")

C3_CliImageWins ==
    calls.run = 1
    => /\ (cli.image_name # NULL /\ ConfSets(host.conf, "ODK_IMAGE"))
          => calls.at_run.image_name = cli.image_name
       /\ (cli.image_tag # NULL /\ ConfSets(host.conf, "ODK_TAG"))
          => calls.at_run.image_tag = cli.image_tag

\* The variables set_github_token, set_http_proxy and set_git_user derive from
\* the environment.
EnvironmentDerived ==
    { "GH_TOKEN", "http_proxy", "https_proxy", "no_proxy", "GIT_AUTHOR_NAME",
      "GIT_AUTHOR_EMAIL", "GIT_COMMITTER_NAME", "GIT_COMMITTER_EMAIL" }

\* C4: every variable given as -e NAME=VALUE still has VALUE in the env_vars
\* handed to the backend's run, also when the environment supplies the same
\* name (GH_TOKEN, the proxy variables, the git identity of seed mode).
C4_CliEnvWins ==
    calls.run = 1
    => \A name \in CliNames(cli.env) \cap EnvironmentDerived :
          /\ EntriesNamed(calls.at_run.env_vars, name) # {}
          /\ ValueOf(calls.at_run.env_vars, name) = CliValue(cli.env, name)

\* C5: every Java property given with --java-property or --owlapi-option still
\* has the command line's value in the java_opts handed to the backend's run,
\* whatever run.sh.conf or the proxy environment supplies for its name.
C5_CliJavaPropertyWins ==
    calls.run = 1
    => \A name \in CliNames(cli.props) :
          /\ EntriesNamed(calls.at_run.java_opts, name) # {}
          /\ ValueOf(calls.at_run.java_opts, name) = CliValue(cli.props, name)


\* A list of Java options has a heap limit.
HasXmx(opts) == \E i \in 1..Len(opts) : IsXmx(opts[i].name)

JavaOption(option) == [name |-> option, value |-> NULL]

\* C8: without --java-mem and without an earlier -Xmx option, set_max_java_mem
\* appends -Xmx<N>G, N the whole GiB in nine tenths of total_memory, exactly when
\* total_memory > 0 and N >= 1, and otherwise leaves the Java options alone:
\* 10 GiB give -Xmx9G, 1 GiB gives nothing, and so does an -Xmx of run.sh.conf.
C8_DefaultHeap ==
    (last.op = "set_max_java_mem" /\ cli.java_mem = NULL)
    => LET T    == backend.total_memory
           N    == (T * 9) \div (10 * GiB)
           old  == last.before.java_opts
       IN  /\ status.end = "no"
           /\ IF ~HasXmx(old) /\ T > 0 /\ N >= 1
              THEN cfg.java_opts = Append(old, JavaOption("-Xmx" \o ToString(N) \o "G"))
              ELSE cfg.java_opts = old
           /\ (T = 10 * GiB /\ ~HasXmx(old)) => cfg.java_opts = Append(old, JavaOption("-Xmx9G"))
           /\ T = GiB => cfg.java_opts = old
           /\ ConfSets(host.conf, "ODK_JAVA_OPTS") /\ HasXmx(old) => cfg.java_opts = old

C8_Witness ==
    /\ last.op = "set_max_java_mem" /\ cli.java_mem = NULL
    /\ backend.total_memory = 10 * GiB
    /\ ~HasXmx(last.before.java_opts)
    /\ cfg.java_opts = Append(last.before.java_opts, JavaOption("-Xmx9G"))

\* --java-mem asks for a percentage: digits followed by '%'.
IsPercentage(requested) ==
    /\ requested # NULL
    /\ LeadingDigits(requested) > 0
    /\ LeadingDigits(requested) = Len(requested) - 1
    /\ CharAt(requested, Len(requested)) = "%"

\* C9: --java-mem P% with total_memory T > 0 adds the option -Xmx<N>G with N the
\* whole GiB in P hundredths of T; with T = 0 the launcher ends with a failure
\* status, and neither prepare nor run has been called.
C9_PercentageHeap ==
    (last.op = "set_max_java_mem" /\ IsPercentage(cli.java_mem))
    => LET T == backend.total_memory
           P == DecimalValue(SubSeq(cli.java_mem, 1, Len(cli.java_mem) - 1))
           N == (T * P) \div (100 * GiB)
       IN  IF T > 0
           THEN /\ status.end = "no"
                /\ EntriesNamed(cfg.java_opts, "-Xmx" \o ToString(N) \o "G") # {}
                /\ (T = 8 * GiB /\ P = 50) => EntriesNamed(cfg.java_opts, "-Xmx4G") # {}
           ELSE /\ status = Exited(EXIT_FAILURE)
                /\ calls.prepare = 0 /\ calls.run = 0

\* A line of run.sh.conf that process_line counts as a configuration error.
ConfErrors(file, home) ==
    { i \in 1..Len(file.lines) : process_line(file.lines[i], odk_init_config, 0, home).ret # 0 }

\* C10: load_run_conf returns 0 exactly when there is no run.sh.conf, 1 exactly
\* when the file was read without a configuration error, 2 or more exactly when
\* configuration errors were found in it, and -1 when opening or reading fails.
C10_LoadResult ==
    last.op = "load_run_conf"
    => LET file   == host.conf
           failed == file.exists /\ (~file.opens \/ file.fails_after >= 0)
           read   == file.exists /\ ~failed
           errors == ConfErrors(file, host.HOME)
       IN  /\ last.ret = 0 <=> ~file.exists
           /\ last.ret = 1 <=> (read /\ errors = {})
           /\ last.ret >= 2 <=> (read /\ errors # {})
           /\ failed => last.ret = -1

(***************************************************************************)
(* C11: what run.sh.conf asks for, read from the file's text.              *)
(***************************************************************************)

\* The key of a KEY=value line, and its value without the enclosing quotes.
C11_Key(line) == SubSeq(line, 1, StrChr(line, "=") - 1)

C11_Value(line) ==
    LET raw == From(line, StrChr(line, "=") + 1) IN
    IF Len(raw) >= 2 /\ CharAt(raw, 1) \in { "'", "\"" } /\ CharAt(raw, Len(raw)) = CharAt(raw, 1)
    THEN SubSeq(raw, 2, Len(raw) - 1) ELSE raw

\* A binding of ODK_BINDS that cannot be used: it is not host:container, or its
\* ~ cannot be expanded, or its host path cannot be resolved.
C11_BadBinding(entry, home) ==
    LET colon == StrChr(entry, ":") IN
    \/ colon = 0 \/ colon = Len(entry)
    \/ CharAt(entry, colon + 1) = ":"
    \/ LET src == SubSeq(entry, 1, colon - 1) IN
       IF HasPrefix(src, "~") THEN home = NULL \/ realpath(home \o From(src, 2)).errno = "EACCES"
       ELSE realpath(src).errno = "EACCES"

\* The number of erroneous entries of a line: 1 for a line that is not KEY=value,
\* has no value, has a key that is not recognized or a value its key does not
\* allow; the number of unusable bindings for an ODK_BINDS line.
C11_Errors(line, home) ==
    IF line = "" \/ CharAt(line, 1) = "#" THEN 0
    ELSE IF StrChr(line, "=") = 0 THEN 1
    ELSE LET key == C11_Key(line)  value == C11_Value(line) IN
         IF value = "" THEN 1
         ELSE IF key \in { "ODK_IMAGE", "ODK_TAG", "ODK_JAVA_OPTS" } THEN 0
         ELSE IF key = "ODK_DEBUG" THEN (IF value = "yes" THEN 0 ELSE 1)
         ELSE IF key = "ODK_USER_ID" THEN (IF value = "0" THEN 0 ELSE 1)
         ELSE IF key = "ODK_BINDS"
         THEN Cardinality({ k \in 1..Len(strtok(value, ",")) :
                               C11_BadBinding(strtok(value, ",")[k], home) })
         ELSE IF HasPrefix(key, "OWLAPI_")
         THEN (IF \E o \in OwlapiOptions : o.symbol = From(key, 8) /\ OwlapiValueOk(o, value)
               THEN 0 ELSE 1)
         ELSE 1

RECURSIVE C11_ErrorsUpTo(_, _, _)
C11_ErrorsUpTo(lines, k, home) ==
    IF k = 0 THEN 0 ELSE C11_ErrorsUpTo(lines, k - 1, home) + C11_Errors(lines[k], home)

\* Line i of the file is the last one that sets key, it sets it properly, and
\* an erroneous line comes before it.
C11_SetsAfterError(lines, i, key, home) ==
    /\ HasPrefix(lines[i], key \o "=")
    /\ C11_Errors(lines[i], home) = 0
    /\ C11_ErrorsUpTo(lines, i - 1, home) > 0
    /\ \A j \in (i + 1)..Len(lines) : ~HasPrefix(lines[j], key \o "=")

C12_UnknownName(arg) ==
    LET eq == StrChr(arg, "=") IN
    /\ eq > 1 /\ eq < Len(arg)
    /\ \A o \in OwlapiOptions : o.name # SubSeq(arg, 1, eq - 1)

\* No backend has been initialised, prepared or run.
C12_NothingStarted ==
    backend = NoBackend /\ calls.prepare = 0 /\ calls.run = 0 /\ calls.close = 0

\* C12: once the command line has given an --owlapi-option with a name that is
\* not in the option table, the launcher has ended with EXIT_FAILURE and the
\* error "Unknown option", and once it has given --owlapi-option=help it has
\* ended with status 0; in both cases no backend was initialised, prepared or run.
C12_OwlapiOptionChecked ==
    \A i \in 1..Len(cli.owlapi) :
       /\ C12_UnknownName(cli.owlapi[i])
          => /\ status = Exited(EXIT_FAILURE)
             /\ last.op = "handle_owlapi_option" /\ last.error = "Unknown option"
             /\ i = Len(cli.owlapi)
             /\ C12_NothingStarted
       /\ cli.owlapi[i] = "help"
          => /\ status = Exited(0)
             /\ i = Len(cli.owlapi)
             /\ C12_NothingStarted

C12_Witness ==
    /\ cli.owlapi = << "connection-timeout=5", "bogus=x" >>
    /\ status = Exited(EXIT_FAILURE)
    /\ last.error = "Unknown option"
    /\ C12_NothingStarted

C12_WitnessHelp ==
    /\ cli.owlapi = << "help" >>
    /\ status = Exited(0)
    /\ C12_NothingStarted

\* C13: spawn_process returns -1 when the child could not be created (fork
\* failed), when the program could not be executed (execvp failed) and when the
\* child was killed by a signal; it returns the child's exit code when the program
\* ran and exited.
C13_SpawnSentinel ==
    calls.run = 1
    => /\ calls.child.kind \in { "fork_failed", "exec_failed", "signaled" }
          => calls.run_ret = -1
       /\ calls.child.kind = "exited" => calls.run_ret = calls.child.code

\* C14: when the Docker backend's memory query cannot be run or prints no
\* integer, backend initialisation leaves total_memory at 0 and the launcher goes
\* on to set_max_java_mem (and from there to prepare and run); it does not end.
C14_DockerMemoryFailure ==
    (last.op = "backend_init" /\ cli.backend = "docker" /\ host.docker_info = -1)
    => /\ status.end = "no"
       /\ pc = "set_max_java_mem"
       /\ backend.total_memory = 0

\* C15: in the run of each backend every token of the argument vector, the final
\* NULL included, is written at an index below the number n of slots allocated:
\* the vector written is no longer than n.
C15_VectorFits ==
    calls.run = 1 => Len(calls.argv) <= calls.n

\* Strings joined by single commas.
RECURSIVE C16_Join(_)
C16_Join(strs) ==
    IF strs = << >> THEN ""
    ELSE IF Len(strs) = 1 THEN strs[1]
    ELSE strs[1] \o "," \o C16_Join(Tail(strs))

C16_EnvPairs(vs) ==
    LET valued == SelectSeq(vs, LAMBDA v : v.value # NULL) IN
    [k \in 1..Len(valued) |-> valued[k].name \o "=" \o valued[k].value]

C16_BindPairs(bs) ==
    [k \in 1..Len(bs) |-> bs[k].host_directory \o ":" \o bs[k].container_directory]

\* C16: in the vector of the Singularity backend, the argument after --env is the
\* NAME=VALUE pairs of the env vars that have a value, in order, joined by single
\* commas (no leading, trailing or doubled comma), and the argument after --bind
\* is the host:container pairs of all bindings joined by single commas.
C16_SingularityLists ==
    (backend.kind = "singularity" /\ calls.run = 1)
    => LET c    == calls.at_run
           argv == calls.argv
           bind == IF Len(c.env_vars) > 0 THEN 6 ELSE 4
       IN  /\ Len(c.env_vars) > 0
              => argv[4] = "--env" /\ argv[5] = C16_Join(C16_EnvPairs(c.env_vars))
           /\ Len(c.bindings) > 0
              => argv[bind] = "--bind" /\ argv[bind + 1] = C16_Join(C16_BindPairs(c.bindings))

\* The vector execvp() sees: the tokens before the first NULL.
C17_Executed(argv) ==
    LET k == CHOOSE i \in 1..Len(argv) : argv[i] = NULL /\ \A j \in 1..(i - 1) : argv[j] # NULL
    IN  SubSeq(argv, 1, k - 1)

\* C17: the native backend's run calls setenv for every env var that has a value
\* and unsetenv for every one that has none, and executes the three timing tokens
\* if the debug flag is set, then odk.py seed --gitname NAME --gitemail EMAIL if
\* the seed flag is set, then the command; with neither flag, the command alone.
C17_NativeRun ==
    (backend.kind = "native" /\ calls.run = 1)
    => LET c     == calls.at_run
           d     == IF HasFlag(c.flags, ODK_FLAG_TIMEDEBUG) THEN 3 ELSE 0
           s     == IF HasFlag(c.flags, ODK_FLAG_SEEDMODE) THEN 6 ELSE 0
           exe   == C17_Executed(calls.argv)
       IN  /\ Len(calls.environ) = Len(c.env_vars)
           /\ \A j \in 1..Len(c.env_vars) :
                 /\ calls.environ[j].name = c.env_vars[j].name
                 /\ calls.environ[j].call = (IF c.env_vars[j].value # NULL THEN "setenv"
                                             ELSE "unsetenv")
                 /\ calls.environ[j].value = c.env_vars[j].value
           /\ Len(exe) = d + s + Len(cli.command)
           /\ d = 3 => SubSeq(exe, 1, 3) = TIME_TOKENS
           /\ s = 6 => /\ SubSeq(exe, d + 1, d + 3) = << "odk.py", "seed", "--gitname" >>
                       /\ exe[d + 5] = "--gitemail"
           /\ SubSeq(exe, d + s + 1, Len(exe)) = cli.command

\* Backend initialisation has succeeded.
C18_InitSucceeded ==
    backend.kind # "none" /\ ~(backend.kind = "docker" /\ host.docker_info = -1)

\* C18: once backend initialisation has succeeded, prepare is called at most once
\* and only if the backend has one, run at most once and only after a prepare that
\* returned 0 (or without prepare if the backend has none), close at most once and
\* only after run or a failed prepare; and when the launcher has ended (exit or
\* return), close has been called.
C18_BackendLifecycle ==
    C18_InitSucceeded
    => /\ calls.prepare <= 1 /\ calls.run <= 1 /\ calls.close <= 1
       /\ calls.prepare = 1 => backend.prepare
       /\ calls.run = 1 => IF backend.prepare
                           THEN calls.prepare = 1 /\ calls.prepare_ret = 0
                           ELSE calls.prepare = 0
       /\ calls.close = 1 => (calls.run = 1 \/ (calls.prepare = 1 /\ calls.prepare_ret # 0))
       /\ status.end \in { "exit", "return" } => calls.close = 1

\* C19 as the specification states it: prepare and run leave the whole RunConfig
\* as it was at the end of the merge phase.
C19_ConfigReadOnly ==
    /\ (pc = "run" /\ calls.prepare = 1) => cfg = calls.at_prepare
    /\ (pc = "close" /\ calls.run = 1) => cfg = calls.at_run

\* The variables and the binding a backend's prepare is there to add.
C19_PrepareNames == { "ODK_USER_ID", "ODK_GROUP_ID", "SSH_AUTH_SOCK" }

\* C19, amended: run leaves the whole RunConfig unchanged; prepare leaves image
\* name and tag, work directory, java_opts, OAK cache directory and flags
\* unchanged, keeps every env var and every binding at its place, changes or adds
\* only the env vars ODK_USER_ID, ODK_GROUP_ID and SSH_AUTH_SOCK, and changes
\* or adds only the binding of the SSH agent socket.
C19_PrepareRunFrame ==
    /\ (pc = "close" /\ calls.run = 1) => cfg = calls.at_run
    /\ (pc = "run" /\ calls.prepare = 1)
       => LET old == calls.at_prepare IN
          /\ [cfg EXCEPT !.env_vars = << >>, !.bindings = << >>]
                = [old EXCEPT !.env_vars = << >>, !.bindings = << >>]
          /\ Len(cfg.env_vars) >= Len(old.env_vars)
          /\ \A j \in 1..Len(cfg.env_vars) :
                \/ cfg.env_vars[j].name \in C19_PrepareNames
                \/ j <= Len(old.env_vars) /\ cfg.env_vars[j] = old.env_vars[j]
          /\ \A j \in 1..Len(old.env_vars) : cfg.env_vars[j].name = old.env_vars[j].name
          /\ Len(cfg.bindings) >= Len(old.bindings)
          /\ \A j \in 1..Len(cfg.bindings) :
                \/ /\ host.SSH_AUTH_SOCK # NULL
                   /\ cfg.bindings[j].container_directory = DOCKER_SSH_SOCKET
                \/ j <= Len(old.bindings) /\ cfg.bindings[j] = old.bindings[j]
          /\ \A j \in 1..Len(old.bindings) :
                cfg.bindings[j].host_directory = old.bindings[j].host_directory

C19_Witness ==
    /\ pc = "run" /\ calls.prepare = 1 /\ backend.kind = "docker"
    /\ host.SSH_AUTH_SOCK = "/tmp/ssh-agent.sock"
    /\ calls.at_prepare.env_vars[1] = [name |-> "ODK_DEBUG", value |-> "yes"]
    /\ Len(cfg.env_vars) = Len(calls.at_prepare.env_vars) + 3
    /\ cfg.env_vars[1] = [name |-> "ODK_DEBUG", value |-> "yes"]
    /\ Len(cfg.bindings) = Len(calls.at_prepare.bindings) + 1

\* The path odk_add_binding looks for: the canonical form of src, or src itself
\* when it does not exist.
C20_Key(src) == IF realpath(src).path # NULL THEN realpath(src).path ELSE src

\* C20: no two bindings have the same host_directory; and a successful
\* odk_add_binding for a path that already has an entry leaves the host
\* directories, their number and their order as they were, and every other entry
\* unchanged, and gives that entry the new container directory exactly when
\* ODK_NO_OVERWRITE is not set.
C20_UniqueHostDirectories ==
    /\ \A i, j \in 1..Len(cfg.bindings) :
          i # j => cfg.bindings[i].host_directory # cfg.bindings[j].host_directory
    /\ (last.op = "odk_add_binding" /\ last.ret = 0
        /\ FirstIndex(BindHosts(last.before.bindings), C20_Key(last.src)) # 0)
       => LET old == last.before.bindings
              i   == FirstIndex(BindHosts(old), C20_Key(last.src))
          IN  /\ Len(cfg.bindings) = Len(old)
              /\ BindHosts(cfg.bindings) = BindHosts(old)
              /\ \A j \in 1..Len(old) : j # i => cfg.bindings[j] = old[j]
              /\ cfg.bindings[i].container_directory
                    = (IF HasFlag(last.fgs, ODK_NO_OVERWRITE)
                       THEN old[i].container_directory ELSE last.dst)

C20_Witness ==
    /\ last.op = "odk_add_binding" /\ last.ret = 0
    /\ last.src = "/link" /\ last.dst = "/data" /\ last.fgs = 0
    /\ Len(last.before.bindings) = 2
    /\ last.before.bindings[2] = [host_directory |-> "/host", container_directory |-> "/container"]
    /\ Len(cfg.bindings) = 2
    /\ cfg.bindings[2] = [host_directory |-> "/host", container_directory |-> "/data"]

\* C21: image_name and image_tag are non-empty strings in every state of the
\* configuration, from odk_init_config to the configuration handed to run.
C21_ImageNeverEmpty ==
    /\ cfg.image_name # "" /\ cfg.image_tag # ""
    /\ cfg.image_name # NULL /\ cfg.image_tag # NULL
    /\ calls.run = 1 => calls.at_run.image_name # "" /\ calls.at_run.image_tag # ""

\* The user's OAK cache directory by the rules of Pystow, NULL when the variable
\* the applicable rule needs is not set.
C23_UserCache(h) ==
    IF h.OAKLIB_HOME # NULL THEN h.OAKLIB_HOME
    ELSE IF h.PYSTOW_HOME # NULL THEN h.PYSTOW_HOME \o "/oaklib"
    ELSE IF h.PYSTOW_USE_APPDIRS # NULL /\ ToLower(h.PYSTOW_USE_APPDIRS) = "true"
    THEN IF h.XDG_DATA_HOME # NULL THEN h.XDG_DATA_HOME \o "/oaklib"
         ELSE IF h.HOME # NULL THEN h.HOME \o "/.local/share/oaklib"
         ELSE NULL
    ELSE IF h.HOME = NULL THEN NULL
    ELSE IF h.PYSTOW_NAME # NULL THEN h.HOME \o "/" \o h.PYSTOW_NAME \o "/oaklib"
    ELSE h.HOME \o "/.data/oaklib"

\* share_oaklib_cache has just been called with the keyword user.
C22_SharedUserCache ==
    last.op = "share_oaklib_cache" /\ last.count = 1 /\ ToLower(last.dir) = "user"

\* C22: share_oaklib_cache with the keyword user returns -1 and adds no binding
\* when the user's cache directory cannot be obtained (no OAKLIB_HOME or
\* PYSTOW_HOME and no HOME, or a path of CACHE_PATH_MAX characters or more);
\* otherwise it returns 0 and the directory get_oaklib_cache_directory found is
\* bound to /root/.data/oaklib for the superuser, /home/odkuser/.data/oaklib else.
C22_UserCacheShared ==
    C22_SharedUserCache
    => IF last.cache_ret = -1 \/ last.cache_ret >= CACHE_PATH_MAX
       THEN last.ret = -1 /\ cfg.bindings = last.before.bindings
       ELSE /\ last.ret = 0
            /\ \E j \in 1..Len(cfg.bindings) :
                  cfg.bindings[j] =
                     [ host_directory |-> IF realpath(last.cache_dir).path # NULL
                                          THEN realpath(last.cache_dir).path
                                          ELSE last.cache_dir,
                       container_directory |-> IF HasFlag(cfg.flags, ODK_FLAG_RUNASROOT)
                                               THEN "/root/.data/oaklib"
                                               ELSE "/home/odkuser/.data/oaklib" ]

\* C23: the directory found for the keyword user is OAKLIB_HOME if set; else
\* $PYSTOW_HOME/oaklib; else, with PYSTOW_USE_APPDIRS true, $XDG_DATA_HOME/oaklib
\* if XDG_DATA_HOME is set and $HOME/.local/share/oaklib otherwise; else the
\* oaklib directory under $HOME/$PYSTOW_NAME if PYSTOW_NAME is set, and under
\* $HOME/.data otherwise.
C23_PystowOrder ==
    (C22_SharedUserCache /\ last.cache_ret >= 0 /\ C23_UserCache(host) # NULL)
    => last.cache_dir = C23_UserCache(host)

\* One Java option as an argument of the Java virtual machine.
C24_Entry(o) ==
    IF o.value = NULL THEN o.name ELSE "-D" \o o.name \o "=" \o o.value

\* The arguments in insertion order with one space between neighbours.
RECURSIVE C24_Render(_)
C24_Render(opts) ==
    IF opts = << >> THEN ""
    ELSE IF Len(opts) = 1 THEN C24_Entry(opts[1])
    ELSE C24_Render(SubSeq(opts, 1, Len(opts) - 1)) \o " " \o C24_Entry(opts[Len(opts)])

\* C24: odk_make_java_args returns the java_opts entries in insertion order
\* separated by single spaces, -Dname=value for an entry with a value and the
\* bare name for one without, with no separator at either end; for an empty list
\* it returns no string. The string main got from it is the one rendered from
\* the options the configuration held at the call.
C24_JavaArgsRendered ==
    /\ odk_make_java_args(cfg, FALSE).buffer =
          (IF cfg.java_opts = << >> THEN NULL ELSE C24_Render(cfg.java_opts))
    /\ (last.op = "odk_make_java_args" /\ last.count = 1)
       => /\ last.buffer = C24_Render(last.before.java_opts)
          /\ CharAt(last.buffer, 1) # " "
          /\ CharAt(last.buffer, Len(last.buffer)) # " "

C24_Witness ==
    /\ last.op = "odk_make_java_args" /\ last.count = 1
    /\ Len(last.before.java_opts) >= 3
    /\ \E i, j \in 1..Len(last.before.java_opts) :
          /\ last.before.java_opts[i].value # NULL
          /\ last.before.java_opts[j].value = NULL
    /\ status = Running

\* C25: when the seed subcommand was given, the vector the backend executes holds
\* a program token followed by the token seed, and the user's remaining tokens
\* come after that invocation and end the vector (the native backend's own
\* --gitname and --gitemail options of the invocation may stand in between).
C25_SeedInvocation ==
    (calls.run = 1 /\ cli.seed)
    => LET argv == C17_Executed(calls.argv)
           rest == Len(argv) - Len(cli.command)
       IN  /\ SubSeq(argv, rest + 1, Len(argv)) = cli.command
           /\ \E k \in 1..(rest - 1) : argv[k + 1] = "seed"

\* C26: the configuration handed to the backend's run holds at most one Java
\* option beginning with -Xmx, whatever --java-mem asked for, whatever -Xmx
\* option ODK_JAVA_OPTS of run.sh.conf listed and whatever memory was detected.
C26_SingleHeapOption ==
    calls.run = 1
    => Cardinality({ i \in 1..Len(calls.at_run.java_opts) :
                        IsXmx(calls.at_run.java_opts[i].name) }) <= 1

\* The -Xmx options that carry the request of --java-mem: the amount itself with
\* its unit, or, for a percentage, the whole GiB in that share of total_memory
\* (either neighbour of the exact quotient, whichever way it is rounded).
C27_Carrying(requested, total_memory) ==
    LET k     == LeadingDigits(requested)
        given == DecimalValue(SubSeq(requested, 1, k))
    IN  IF IsPercentage(requested)
        THEN { "-Xmx" \o ToString(n) \o "G" :
                  n \in { m \in 0..((total_memory * given) \div (100 * GiB)) :
                             (m + 1) * 100 * GiB >= total_memory * given } }
        ELSE { "-Xmx" \o ToString(given) \o From(requested, k + 1) }

\* C27: when --java-mem MEM was given and the launcher got as far as the
\* backend's run, the Java options handed to run hold an -Xmx option carrying
\* the requested amount.
C27_RequestHonoured ==
    (calls.run = 1 /\ cli.java_mem # NULL)
    => \E i \in 1..Len(calls.at_run.java_opts) :
          /\ calls.at_run.java_opts[i].value = NULL
          /\ calls.at_run.java_opts[i].name
                \in C27_Carrying(cli.java_mem, backend.total_memory)

\* C28: when the configuration handed to the backend's run has Java options, its
\* env_vars hold exactly one ODK_JAVA_OPTS and one ROBOT_JAVA_ARGS, each with the
\* argument string rendered from all those Java options, whatever value -e gave
\* for either name on the command line.
C28_JavaArgsExported ==
    (calls.run = 1 /\ calls.at_run.java_opts # << >>)
    => \A name \in { "ODK_JAVA_OPTS", "ROBOT_JAVA_ARGS" } :
          /\ Cardinality(EntriesNamed(calls.at_run.env_vars, name)) = 1
          /\ ValueOf(calls.at_run.env_vars, name) = C24_Render(calls.at_run.java_opts)

C28_Witness ==
    /\ calls.run = 1 /\ calls.at_run.java_opts # << >>
    /\ "ODK_JAVA_OPTS" \in CliNames(cli.env)
    /\ CliValue(cli.env, "ODK_JAVA_OPTS") # ValueOf(calls.at_run.env_vars, "ODK_JAVA_OPTS")

\* C29: every path set_github_token hands to file_exists is a string, never
\* NULL, so the assertion path != NULL of file_exists holds and the launcher is
\* not aborted there: for GH_TOKEN, XDG_CONFIG_HOME and HOME set or unset, and
\* for the repository's token file present or absent.
C29_TokenPathNeverNull ==
    last.op = "set_github_token"
    => /\ \A i \in 1..Len(last.paths) : last.paths[i] # NULL
       /\ status # Aborted

\* C30: for a non-empty list of Java options the buffer odk_make_java_args
\* allocates holds the rendered string and its terminating NUL: the bytes
\* written do not exceed the bytes allocated.
C30_BufferHoldsArgs ==
    (last.op = "odk_make_java_args" /\ last.count = 1)
    => /\ last.needed >= Len(last.buffer) + 1
       /\ last.needed >= last.bytes
       /\ calls.heap # "overrun"

====
